---------------------------- MODULE Spec2Model ----------------------------
(***************************************************************************)
(* Model of the Excel Operations App engine:                               *)
(*   _service_one/service_logic.py    analyse (forecast comparison pivot)  *)
(*   _service_two/service_logic.py    compare (aligner and differ)         *)
(*   _service_three/service_logic.py  flag_anomalies, get_anomalous_       *)
(*                                    instances (anomaly detector)         *)
(*   _service_eight/service_logic.py  service_merge (outer-join merger)    *)
(*   _gui/service_eight_layout.py     select_files, create_column_         *)
(*                                    dropdowns and their callbacks        *)
(*   _config/settings.py              clear_service_eight_config           *)
(* Each service has its own specifications: SpecOne; SpecTwo,              *)
(* SpecTwoStable and SpecTwoColumns; SpecThree, SpecThreeSigned,           *)
(* SpecThreeChain, SpecInterleaved and SpecAnalyse; SpecEight,             *)
(* SpecEightCols and SpecGui. The variables of the services that a         *)
(* specification does not run stay at their idle values.                   *)
(***************************************************************************)
EXTENDS Integers, Sequences, FiniteSets, TLC

VARIABLES
    \* ---- service three: flag_anomalies ----
    df,            \* input table: sequence of rows [grp, date, usage]
    window,        \* recent_window_size
    shift,         \* shift_window
    anomaly,       \* df_flags['anomaly'], one BOOLEAN per row of df
    direction,     \* df_flags['anomaly_direction'], "None" | "increase" | "decrease"
    gi,            \* position of the group being scanned in the groupby order
    i,             \* loop variable i of the scan of the current group
    consecutive,   \* consecutive_anomalies of the current group
    pc3,           \* "scan" | "done" | "selected" ("idle" when the service does not run)
    instances,     \* labels of the rows returned by get_anomalous_instances
    run,           \* 1 in the first call of flag_anomalies, 2 in a call on its output
    first_flags,   \* the anomaly and anomaly_direction columns the first call returned
    saved,         \* i and consecutive_anomalies of the group scans that are suspended
    \* ---- service two: compare ----
    df1,           \* first table: sequence of rows [key, c1, c2]
    df2,           \* second table
    df1_aligned,   \* df1 restricted to the common keys, sorted
    df2_aligned,   \* df2 restricted to the common keys, sorted
    mismatches,    \* list of (row position, column) records
    result_df,     \* result_df: df1_aligned with the changed cells replaced
    pc2,           \* "loaded" | "aligned" | "done" | "error" | "nokey" ("idle" ...)
    columns1,      \* df1.columns as read from the first sheet
    columns2,      \* df2.columns as read from the second sheet
    sortable_columns, \* sortable_columns: the `by` of both sort_values calls
    \* ---- service eight: service_merge ----
    tables,        \* the sheets of file_paths: sequence of [cols, rows, mcol]
    fi,            \* 1 + loop variable i of `for i, file_path in enumerate(file_paths)`
    merged_df,     \* merged_df; NoDf stands for None
    pc8,           \* "merging" | "done" | "failed" ("idle" ...)
    \* ---- service one: analyse (forecast comparison) ----
    excel1,        \* first sheet: sequence of rows [id, fc, region]
    excel2,        \* second sheet: sequence of rows [id, fc]
    extra_cols,    \* extra_columns of file 1: <<>> or <<"region">>
    excel1_trim,   \* excel1_trim before the concat
    excel2_trim,   \* excel2_trim before the concat
    pivot_table,   \* pivot_table: sequence of rows, in the order of its index
    pc1,           \* "loaded" | "prepared" | "pivoted" | "sorted" | "error" ("idle" ...)
    \* ---- service three: analyse, up to the call of flag_anomalies ----
    df_raw,        \* df as read from the sheet: [cols, rows]
    df_agg,        \* df_agg: sequence of rows; <<>> until it is built
    pc3a,          \* "start" | "init_error" | "processing_error" | "preprocessed" ("idle" ...)
    \* ---- service eight: the selection widgets and the saved configuration ----
    file_paths,    \* config["service_eight"]["file_paths"]
    sheet_names,   \* config["service_eight"]["sheet_names"]
    merging_columns, \* config["service_eight"]["merging_columns"]
    sheet_dropdowns, \* the idx of the sheet dropdowns alive in dropdown_frame
    column_dropdowns, \* the idx of the key-column dropdowns alive in dropdown_frame
    pc8g           \* "open" | "closed" ("idle" when the window is not modelled)

varsThreeAux == <<instances, run, first_flags, saved>>

varsThree == <<df, window, shift, anomaly, direction, gi, i, consecutive, pc3,
               varsThreeAux>>

varsTwo == <<df1, df2, df1_aligned, df2_aligned, mismatches, result_df, pc2,
             columns1, columns2, sortable_columns>>

varsEight == <<tables, fi, merged_df, pc8>>

varsOne == <<excel1, excel2, extra_cols, excel1_trim, excel2_trim, pivot_table, pc1>>

varsAnalyse == <<df_raw, df_agg, pc3a>>

varsGui == <<file_paths, sheet_names, merging_columns, sheet_dropdowns,
             column_dropdowns, pc8g>>

vars == <<varsThree, varsTwo, varsEight, varsOne, varsAnalyse, varsGui>>

(***************************************************************************)
(* Generic helpers                                                         *)
(***************************************************************************)
Abs(x) == IF x < 0 THEN -x ELSE x

Range(s) == {s[p] : p \in DOMAIN s}

\* Insert x into the sorted sequence s after every element whose key is <= key(x)
\* (stable insertion); Key(_) maps an element to an integer.
RECURSIVE InsertSorted(_, _, _)
InsertSorted(s, x, kx) ==
    IF s = <<>> THEN <<x>>
    ELSE IF kx[x] < kx[Head(s)] THEN <<x>> \o s
         ELSE <<Head(s)>> \o InsertSorted(Tail(s), x, kx)

\* Stable ascending sort of the sequence s of distinct items by the key function kx.
RECURSIVE SortByKey(_, _)
SortByKey(s, kx) ==
    IF s = <<>> THEN <<>>
    ELSE InsertSorted(SortByKey(SubSeq(s, 1, Len(s) - 1), kx), s[Len(s)], kx)

\* Ascending sort of a sequence of integers.
RECURSIVE SortInts(_)
SortInts(s) ==
    IF s = <<>> THEN <<>>
    ELSE LET rest == SortInts(SubSeq(s, 1, Len(s) - 1))
             x    == s[Len(s)]
             RECURSIVE Ins(_)
             Ins(t) == IF t = <<>> THEN <<x>>
                       ELSE IF x < Head(t) THEN <<x>> \o t
                            ELSE <<Head(t)>> \o Ins(Tail(t))
         IN Ins(rest)

(***************************************************************************)
(* Idle values of the services a specification does not run                *)
(***************************************************************************)
IdleThree ==
    /\ df = <<>> /\ window = 1 /\ shift = 1 /\ anomaly = <<>> /\ direction = <<>>
    /\ gi = 1 /\ i = 1 /\ consecutive = 0 /\ pc3 = "idle"
    /\ instances = <<>> /\ run = 1 /\ first_flags = <<>> /\ saved = <<>>

IdleTwo ==
    /\ df1 = <<>> /\ df2 = <<>> /\ df1_aligned = <<>> /\ df2_aligned = <<>>
    /\ mismatches = <<>> /\ result_df = <<>> /\ pc2 = "idle"
    /\ columns1 = <<>> /\ columns2 = <<>> /\ sortable_columns = <<>>

IdleEight ==
    /\ tables = <<>> /\ fi = 1 /\ merged_df = [cols |-> <<>>, rows |-> <<>>]
    /\ pc8 = "idle"

IdleAnalyse ==
    /\ df_raw = [cols |-> <<>>, rows |-> <<>>] /\ df_agg = <<>> /\ pc3a = "idle"

IdleGui ==
    /\ file_paths = <<>> /\ sheet_names = <<>> /\ merging_columns = <<>>
    /\ sheet_dropdowns = {} /\ column_dropdowns = {} /\ pc8g = "idle"

IdleOne ==
    /\ excel1 = <<>> /\ excel2 = <<>> /\ extra_cols = <<>>
    /\ excel1_trim = <<>> /\ excel2_trim = <<>> /\ pivot_table = <<>>
    /\ pc1 = "idle"

(***************************************************************************)
(* Service three: sustained-shift anomaly detection                        *)
(***************************************************************************)
\* Bounds of the model
MaxLen == 4          \* rows of the input table
MaxWindow == 2       \* largest recent_window_size tried
MaxShift == 3        \* largest shift_window tried

\* Defaults of flag_anomalies
AnomalyThresholdPercent == 20
AnomalyThresholdAbs == 60

\* The (company, service) pairs of the input; groupby iterates them in key order.
GroupOrder == << <<"X", "svcA">>, <<"Y", "svcB">> >>
GroupKeys == Range(GroupOrder)

\* Usage values of the input rows.
Usages == {0, 100, 200}

\* group.sort_values(by=COL_DATE).reset_index(): the original row labels of the
\* rows of group g, in ascending date order (the 'index' column of the group).
GroupIndex(g) ==
    LET RECURSIVE Pick(_)
        Pick(p) == IF p > Len(df) THEN <<>>
                   ELSE (IF df[p].grp = g THEN <<p>> ELSE <<>>) \o Pick(p + 1)
        dates == [p \in 1..Len(df) |-> df[p].date]
    IN SortByKey(Pick(1), dates)

\* The usage of the row at (0-based) position k of group g.
GroupUsage(g, k) == df[GroupIndex(g)[k + 1]].usage

\* Twice the median of a non-empty sequence of integers (twice, so that the
\* mean of the two middle values of an even-sized window stays an integer).
Median2(s) ==
    LET t == SortInts(s)
        n == Len(t)
    IN IF n % 2 = 1 THEN 2 * t[(n + 1) \div 2]
       ELSE t[n \div 2] + t[n \div 2 + 1]

\* historical_window.median() for row k of group g: rows k-window .. k-1; doubled.
Baseline2(g, k) ==
    Median2([q \in 1..window |-> GroupUsage(g, k - window + q - 1)])

\* Variant of IsSingleAnomaly in which one threshold is enough.
IsSingleAnomalyEither(g, k) ==
    LET b2 == Baseline2(g, k)
        d2 == Abs(2 * GroupUsage(g, k) - b2)
    IN \/ d2 * 100 >= AnomalyThresholdPercent * Abs(b2)
       \/ d2 >= 2 * AnomalyThresholdAbs

\* is_single_anomaly for row k of group g (baseline nonzero):
\*   abs((cur - b) / b) * 100 >= pct  and  abs(cur - b) >= abs_threshold,
\* with both sides doubled (b2 = 2b).
IsSingleAnomaly(g, k) ==
    LET b2 == Baseline2(g, k)
        d2 == Abs(2 * GroupUsage(g, k) - b2)
    IN /\ d2 * 100 >= AnomalyThresholdPercent * Abs(b2)
       /\ d2 >= 2 * AnomalyThresholdAbs

\* Variant of DirectionAt that leaves a row equal to the baseline without a
\* direction.
DirectionAtStrict(g, j, k) ==
    IF 2 * GroupUsage(g, j) > Baseline2(g, k) THEN "increase"
    ELSE IF 2 * GroupUsage(g, j) < Baseline2(g, k) THEN "decrease" ELSE "None"

\* The direction written for row j when the confirmation happens at row k:
\* 'increase' if group.loc[j, COL_USAGE] > baseline_usage else 'decrease',
\* baseline_usage being the baseline computed for row k.
DirectionAt(g, j, k) ==
    IF 2 * GroupUsage(g, j) > Baseline2(g, k) THEN "increase" ELSE "decrease"

\* Variant of MayWrite without the `if not df_flags.loc[original_index, 'anomaly']`
\* guard: every row of the shift window is written at every confirmation.
MayWriteAlways(r) == TRUE

\* Whether the flagging loop writes row r (an original label): only a row that
\* is not flagged yet.
MayWrite(r) == ~anomaly[r]

\* Variant of ShiftWindow that reaches one row further back.
ShiftWindowWide(k) == (k - shift)..k

\* The rows (0-based positions in the group) flagged at a confirmation at row k.
ShiftWindow(k) == (k - shift + 1)..k

CurGroup == GroupOrder[gi]

InitThree ==
    /\ \E n \in 0..MaxLen :
       \E gs \in [1..n -> GroupKeys] :
       \E us \in [1..n -> Usages] :
       \E ord \in {"asc", "desc"} :
          /\ df = [p \in 1..n |->
                     [grp |-> gs[p],
                      date |-> IF ord = "asc" THEN p ELSE n + 1 - p,
                      usage |-> us[p]]]
          /\ anomaly = [p \in 1..n |-> FALSE]
          /\ direction = [p \in 1..n |-> "None"]
    /\ window \in 1..MaxWindow
    /\ shift \in 1..MaxShift
    /\ gi = 1
    /\ i = window
    /\ consecutive = 0
    /\ pc3 = "scan"
    /\ instances = <<>>
    /\ run = 1
    /\ first_flags = <<>>
    /\ saved = <<>>
    /\ IdleTwo
    /\ IdleEight
    /\ IdleOne
    /\ IdleAnalyse
    /\ IdleGui

\* One iteration of `for i in range(recent_window_size, len(group))`.
ScanRow ==
    /\ pc3 = "scan"
    /\ gi <= Len(GroupOrder)
    /\ i < Len(GroupIndex(CurGroup))
    /\ LET g   == CurGroup
           idx == GroupIndex(g)
           b2  == Baseline2(g, i)
       IN IF b2 # 0
          THEN IF IsSingleAnomaly(g, i)
               THEN /\ consecutive' = consecutive + 1
                    /\ IF consecutive + 1 >= shift
                       THEN LET W == {idx[j + 1] : j \in ShiftWindow(i)}
                                posOf == [r \in W |->
                                            CHOOSE j \in ShiftWindow(i) : idx[j + 1] = r]
                            IN /\ anomaly' = [r \in DOMAIN anomaly |->
                                                IF r \in W /\ MayWrite(r)
                                                THEN TRUE ELSE anomaly[r]]
                               /\ direction' = [r \in DOMAIN direction |->
                                                IF r \in W /\ MayWrite(r)
                                                THEN DirectionAt(g, posOf[r], i)
                                                ELSE direction[r]]
                       ELSE UNCHANGED <<anomaly, direction>>
               ELSE /\ consecutive' = 0
                    /\ UNCHANGED <<anomaly, direction>>
          ELSE UNCHANGED <<consecutive, anomaly, direction>>
    /\ i' = i + 1
    /\ UNCHANGED <<df, window, shift, gi, pc3, varsThreeAux>>
    /\ UNCHANGED <<varsTwo, varsEight, varsOne, varsAnalyse, varsGui>>

\* The scan of the current group is over: groupby yields the next group,
\* consecutive_anomalies restarts at 0 and i at recent_window_size.
NextGroup ==
    /\ pc3 = "scan"
    /\ gi <= Len(GroupOrder)
    /\ i >= Len(GroupIndex(CurGroup))
    /\ gi' = gi + 1
    /\ i' = window
    /\ consecutive' = 0
    /\ UNCHANGED <<df, window, shift, anomaly, direction, pc3, varsThreeAux>>
    /\ UNCHANGED <<varsTwo, varsEight, varsOne, varsAnalyse, varsGui>>

\* return df_flags
ReturnFlags ==
    /\ pc3 = "scan"
    /\ gi > Len(GroupOrder)
    /\ pc3' = "done"
    /\ UNCHANGED <<df, window, shift, anomaly, direction, gi, i, consecutive,
                   varsThreeAux>>
    /\ UNCHANGED <<varsTwo, varsEight, varsOne, varsAnalyse, varsGui>>

NextThree == ScanRow \/ NextGroup \/ ReturnFlags

SpecThree == InitThree /\ [][NextThree]_vars

\* Bound of the inputs with usage of either sign
MaxSignedLen == 3    \* rows of the input table

\* Usage values of either sign, among them pairs that meet one threshold
\* only: -470 against -400 (70 apart, 17.5 %), -50 against -100 (50 apart, 50 %).
SignedUsages == {-470, -400, -100, -50, 100}

\* One group, in date order, with usage values of either sign.
InitSigned ==
    /\ \E n \in 0..MaxSignedLen :
       \E us \in [1..n -> SignedUsages] :
          /\ df = [p \in 1..n |-> [grp |-> GroupOrder[1], date |-> p, usage |-> us[p]]]
          /\ anomaly = [p \in 1..n |-> FALSE]
          /\ direction = [p \in 1..n |-> "None"]
    /\ window \in 1..MaxWindow
    /\ shift \in 1..MaxShift
    /\ gi = 1
    /\ i = window
    /\ consecutive = 0
    /\ pc3 = "scan"
    /\ instances = <<>>
    /\ run = 1
    /\ first_flags = <<>>
    /\ saved = <<>>
    /\ IdleTwo
    /\ IdleEight
    /\ IdleOne
    /\ IdleAnalyse
    /\ IdleGui

SpecThreeSigned == InitSigned /\ [][NextThree]_vars

(***************************************************************************)
(* Service three: selection of the anomalous pairs, and a second call of   *)
(* flag_anomalies on the table the first call returned                     *)
(***************************************************************************)
\* Bound of the model
MaxChainLen == 3     \* rows of the input table

\* anomalous_pairs: the (company, service) pairs of the rows with anomaly == True.
AnomalousPairs == { df[r].grp : r \in { q \in DOMAIN df : anomaly[q] } }

\* Variant of IsAnomalousPair that keeps the flagged rows only.
IsAnomalousRow(r) == anomaly[r]

\* is_anomalous_pair(row), for the row of label r.
IsAnomalousPair(r) == df[r].grp \in AnomalousPairs

\* df[df.apply(is_anomalous_pair, axis=1)]: the labels of the rows kept, from
\* label r on, in the order of the table.
RECURSIVE SelectRows(_)
SelectRows(r) ==
    IF r > Len(df) THEN <<>>
    ELSE (IF IsAnomalousPair(r) THEN <<r>> ELSE <<>>) \o SelectRows(r + 1)

\* Variant of ResetAnomaly that keeps the flag the input table carries.
ResetAnomalyKept(r) == anomaly[r]

\* df_flags['anomaly'] = False: the flag of the row of label r when a call
\* of flag_anomalies starts.
ResetAnomaly(r) == FALSE

InitChain ==
    /\ \E n \in 0..MaxChainLen :
       \E gs \in [1..n -> GroupKeys] :
       \E us \in [1..n -> Usages] :
       \E ord \in {"asc", "desc"} :
          /\ df = [p \in 1..n |->
                     [grp |-> gs[p],
                      date |-> IF ord = "asc" THEN p ELSE n + 1 - p,
                      usage |-> us[p]]]
          /\ anomaly = [p \in 1..n |-> FALSE]
          /\ direction = [p \in 1..n |-> "None"]
    /\ window \in 1..MaxWindow
    /\ shift \in 1..MaxShift
    /\ gi = 1
    /\ i = window
    /\ consecutive = 0
    /\ pc3 = "scan"
    /\ instances = <<>>
    /\ run = 1
    /\ first_flags = <<>>
    /\ saved = <<>>
    /\ IdleTwo
    /\ IdleEight
    /\ IdleOne
    /\ IdleAnalyse
    /\ IdleGui

\* get_anomalous_instances(df_anomalies) on the table flag_anomalies returned.
GetAnomalousInstances ==
    /\ pc3 = "done"
    /\ instances' = SelectRows(1)
    /\ pc3' = "selected"
    /\ UNCHANGED <<df, window, shift, anomaly, direction, gi, i, consecutive>>
    /\ UNCHANGED <<run, first_flags, saved>>
    /\ UNCHANGED <<varsTwo, varsEight, varsOne, varsAnalyse, varsGui>>

\* flag_anomalies is called on the table it returned: df.copy(), then the two
\* annotation columns are set anew and the groups are scanned from the start.
Rerun ==
    /\ pc3 = "done"
    /\ run = 1
    /\ first_flags' = [anomaly |-> anomaly, direction |-> direction]
    /\ anomaly' = [r \in DOMAIN anomaly |-> ResetAnomaly(r)]
    /\ direction' = [r \in DOMAIN direction |-> "None"]
    /\ gi' = 1
    /\ i' = window
    /\ consecutive' = 0
    /\ run' = 2
    /\ pc3' = "scan"
    /\ UNCHANGED <<df, window, shift, instances, saved>>
    /\ UNCHANGED <<varsTwo, varsEight, varsOne, varsAnalyse, varsGui>>

NextChain == ScanRow \/ NextGroup \/ ReturnFlags \/ GetAnomalousInstances \/ Rerun

SpecThreeChain == InitChain /\ [][NextChain]_vars

(***************************************************************************)
(* Service three: the scans of the groups run interleaved, every scan with *)
(* its own i and consecutive_anomalies                                     *)
(***************************************************************************)
\* Bounds of the model
MaxParLen == 3       \* rows of the first group
MaxParLenB == 2      \* rows of the second group
MaxParWindow == 1    \* largest recent_window_size tried
MaxParShift == 2     \* largest shift_window tried

\* Usage values of the rows of the second group.
UsagesB == {100, 200}

UsageSeqs(U, n) == UNION { [1..m -> U] : m \in 0..n }

\* A table whose rows alternate between the two groups as long as both have
\* rows left; ua and ub are the usages of the groups, the dates ascend from d
\* and the next row belongs to group number turn when that group has one.
RECURSIVE Alternate(_, _, _, _)
Alternate(ua, ub, d, turn) ==
    IF ua = <<>> /\ ub = <<>> THEN <<>>
    ELSE IF ub = <<>> \/ (turn = 1 /\ ua # <<>>)
         THEN <<[grp |-> GroupOrder[1], date |-> d, usage |-> Head(ua)]>>
              \o Alternate(Tail(ua), ub, d + 1, 2)
         ELSE <<[grp |-> GroupOrder[2], date |-> d, usage |-> Head(ub)]>>
              \o Alternate(ua, Tail(ub), d + 1, 1)

\* The scan of one group as a function of the usages us of the group in date
\* order: the loop over i from row k on, c being consecutive_anomalies and fl
\* the flags and directions of the rows of the group.
SeqBaseline2(us, k) == Median2([q \in 1..window |-> us[k - window + q]])

SeqIsSingleAnomaly(us, k) ==
    LET b2 == SeqBaseline2(us, k)
        d2 == Abs(2 * us[k + 1] - b2)
    IN /\ d2 * 100 >= AnomalyThresholdPercent * Abs(b2)
       /\ d2 >= 2 * AnomalyThresholdAbs

RECURSIVE ScanUsages(_, _, _, _)
ScanUsages(us, k, c, fl) ==
    IF k >= Len(us) THEN fl
    ELSE LET b2 == SeqBaseline2(us, k)
         IN IF b2 = 0 THEN ScanUsages(us, k + 1, c, fl)
            ELSE IF ~SeqIsSingleAnomaly(us, k) THEN ScanUsages(us, k + 1, 0, fl)
            ELSE IF c + 1 < shift THEN ScanUsages(us, k + 1, c + 1, fl)
            ELSE ScanUsages(us, k + 1, c + 1,
                    [p \in DOMAIN fl |->
                        IF p - 1 \in (k - shift + 1)..k /\ ~fl[p].anomaly
                        THEN [anomaly |-> TRUE,
                              direction |-> IF 2 * us[p] > b2 THEN "increase"
                                            ELSE "decrease"]
                        ELSE fl[p]])

\* The flags and directions flag_anomalies gives the rows of a group whose
\* usages in date order are us.
GroupFlags(us) ==
    ScanUsages(us, window, 0,
               [p \in DOMAIN us |-> [anomaly |-> FALSE, direction |-> "None"]])

\* Variant of ResumeCounter with one counter shared by all the scans.
ResumeCounterShared(h) == consecutive

\* consecutive_anomalies of the scan of group number h when it is resumed.
ResumeCounter(h) == saved[h].c

InitInterleaved ==
    /\ \E ua \in UsageSeqs(Usages, MaxParLen) :
       \E ub \in UsageSeqs(UsagesB, MaxParLenB) :
          /\ df = Alternate(ua, ub, 1, 1)
          /\ anomaly = [p \in 1..(Len(ua) + Len(ub)) |-> FALSE]
          /\ direction = [p \in 1..(Len(ua) + Len(ub)) |-> "None"]
    /\ window \in 1..MaxParWindow
    /\ shift \in 1..MaxParShift
    /\ gi \in DOMAIN GroupOrder
    /\ i = window
    /\ consecutive = 0
    /\ pc3 = "scan"
    /\ instances = <<>>
    /\ run = 1
    /\ first_flags = <<>>
    /\ saved = [h \in DOMAIN GroupOrder |-> [i |-> window, c |-> 0]]
    /\ IdleTwo
    /\ IdleEight
    /\ IdleOne
    /\ IdleAnalyse
    /\ IdleGui

\* The running scan is suspended and the scan of another group, which has
\* rows left, goes on where it stopped.
SwitchGroup ==
    /\ pc3 = "scan"
    /\ \E h \in DOMAIN GroupOrder \ {gi} :
          /\ saved[h].i < Len(GroupIndex(GroupOrder[h]))
          /\ saved' = [saved EXCEPT ![gi] = [i |-> i, c |-> consecutive]]
          /\ gi' = h
          /\ i' = saved[h].i
          /\ consecutive' = ResumeCounter(h)
    /\ UNCHANGED <<df, window, shift, anomaly, direction, pc3>>
    /\ UNCHANGED <<instances, run, first_flags>>
    /\ UNCHANGED <<varsTwo, varsEight, varsOne, varsAnalyse, varsGui>>

\* Every scan has processed its last row: df_flags is returned.
AllScanned ==
    /\ pc3 = "scan"
    /\ i >= Len(GroupIndex(CurGroup))
    /\ \A h \in DOMAIN GroupOrder \ {gi} :
          saved[h].i >= Len(GroupIndex(GroupOrder[h]))
    /\ pc3' = "done"
    /\ UNCHANGED <<df, window, shift, anomaly, direction, gi, i, consecutive>>
    /\ UNCHANGED varsThreeAux
    /\ UNCHANGED <<varsTwo, varsEight, varsOne, varsAnalyse, varsGui>>

NextInterleaved == ScanRow \/ SwitchGroup \/ AllScanned

SpecInterleaved == InitInterleaved /\ [][NextInterleaved]_vars


(***************************************************************************)
(* Service three: analyse, from the reading of the sheet to df_agg         *)
(***************************************************************************)
\* Bound of the model
MaxSheetRows == 2    \* rows of the sheet

\* Column mappings
COL_COMPANY == "TopParent"
COL_ID == "TPID"
COL_DATE == "FiscalDate"
COL_SERVICE == "ServiceLevel2"
COL_USAGE == "Acr"

\* required_cols
RequiredCols == <<COL_ID, COL_COMPANY, COL_DATE, COL_SERVICE, COL_USAGE>>

\* The rows of a sheet that has the five required columns; FiscalDate is a
\* day number.
FullSheetRows ==
    [TPID : {1}, TopParent : {"X"}, FiscalDate : {1, 40},
     ServiceLevel2 : {"svcA", "svcB"}, Acr : {100, 200}]

\* The row r without its column c, and with one more column.
DropColumn(r, c) == [f \in DOMAIN r \ {c} |-> r[f]]
ExtraColumn(r) == [f \in DOMAIN r \cup {"Note"} |-> IF f = "Note" THEN "n" ELSE r[f]]

\* The sheets of at most n rows: with the required columns, with one more
\* column, and with one of the required columns absent.
RawSheets(n) ==
    LET Seqs(R) == UNION { [1..m -> R] : m \in 1..n }
    IN { [cols |-> RequiredCols, rows |-> t] : t \in Seqs(FullSheetRows) }
       \cup { [cols |-> RequiredCols \o <<"Note">>, rows |-> t] :
                 t \in Seqs({ ExtraColumn(r) : r \in FullSheetRows }) }
       \cup UNION { { [cols |-> SelectSeq(RequiredCols, LAMBDA d : d # c), rows |-> t] :
                        t \in Seqs({ DropColumn(r, c) : r \in FullSheetRows }) } :
                    c \in Range(RequiredCols) }

\* Variant of HasRequiredCols that asks for the two grouping columns only.
HasGroupingCols(cs) == {COL_COMPANY, COL_SERVICE} \subseteq Range(cs)

\* all(col in df.columns for col in required_cols)
HasRequiredCols(cs) == \A p \in DOMAIN RequiredCols : RequiredCols[p] \in Range(cs)

\* df[required_cols]
TrimRequired(t) == [p \in DOMAIN t |-> [f \in Range(RequiredCols) |-> t[p][f]]]

\* The rows of the last 30 days: FiscalDate >= latest_date - 30 days.
LastThirtyDays(t) ==
    LET latest == CHOOSE d \in { t[p].FiscalDate : p \in DOMAIN t } :
                     \A p \in DOMAIN t : t[p].FiscalDate <= d
    IN SelectSeq(t, LAMBDA r : r.FiscalDate >= latest - 30)

\* The rank of a text value in the order of Python strings, for the values
\* the sheets hold and the 'Total Usage' of the summary rows.
TextRank(v) ==
    CASE v = "Total Usage" -> 1
      [] v = "X" -> 2
      [] v = "svcA" -> 3
      [] v = "svcB" -> 4

\* The order of the group keys (TPID, TopParent, FiscalDate, ServiceLevel2).
AggKeyLess(a, b) ==
    \/ a[1] < b[1]
    \/ a[1] = b[1] /\ TextRank(a[2]) < TextRank(b[2])
    \/ a[1] = b[1] /\ a[2] = b[2] /\ a[3] < b[3]
    \/ a[1] = b[1] /\ a[2] = b[2] /\ a[3] = b[3] /\ TextRank(a[4]) < TextRank(b[4])

\* The elements of the finite set S as a sequence ascending by Less.
SortedSeq(S, Less(_, _)) ==
    LET RECURSIVE Go(_)
        Go(T) == IF T = {} THEN <<>>
                 ELSE LET least == CHOOSE x \in T : \A y \in T \ {x} : Less(x, y)
                      IN <<least>> \o Go(T \ {least})
    IN Go(S)

\* The sum of the column Acr over the rows of t that satisfy Sel.
SumUsage(t, Sel(_)) ==
    LET RECURSIVE Go(_)
        Go(u) == IF u = <<>> THEN 0
                 ELSE (IF Sel(Head(u)) THEN Head(u).Acr ELSE 0) + Go(Tail(u))
    IN Go(t)

\* groupby([COL_ID, COL_COMPANY, COL_DATE, COL_SERVICE])[COL_USAGE].sum()
\* .reset_index(): one row per key, in key order, with the sum of its rows.
SumByKey(t) ==
    LET KeyOf(r) == <<r.TPID, r.TopParent, r.FiscalDate, r.ServiceLevel2>>
        keys == SortedSeq({ KeyOf(t[p]) : p \in DOMAIN t }, AggKeyLess)
    IN [q \in DOMAIN keys |->
          [TPID |-> keys[q][1], TopParent |-> keys[q][2], FiscalDate |-> keys[q][3],
           ServiceLevel2 |-> keys[q][4],
           Acr |-> SumUsage(t, LAMBDA r : KeyOf(r) = keys[q])]]

\* calculate_total_usage: the rows of the group, then a 'Total Usage' row with
\* the sum of their usage and the TPID, TopParent and FiscalDate of the first.
CalculateTotalUsage(group) ==
    group \o << [TPID |-> group[1].TPID, TopParent |-> group[1].TopParent,
                 FiscalDate |-> group[1].FiscalDate, ServiceLevel2 |-> "Total Usage",
                 Acr |-> SumUsage(group, LAMBDA r : TRUE)] >>

\* groupby([COL_ID, COL_DATE], group_keys=False).apply(calculate_total_usage)
\* .reset_index(drop=True): the groups in key order, each with its summary row.
RECURSIVE ConcatGroups(_, _)
ConcatGroups(t, keys) ==
    IF keys = <<>> THEN <<>>
    ELSE CalculateTotalUsage(
             SelectSeq(t, LAMBDA r : <<r.TPID, r.FiscalDate>> = Head(keys)))
         \o ConcatGroups(t, Tail(keys))

WithTotalUsage(t) ==
    LET PairLess(a, b) == a[1] < b[1] \/ (a[1] = b[1] /\ a[2] < b[2])
    IN ConcatGroups(t, SortedSeq({ <<t[p].TPID, t[p].FiscalDate>> : p \in DOMAIN t },
                                 PairLess))

\* df_agg of the sheet rows t.
DfAgg(t) == WithTotalUsage(SumByKey(LastThirtyDays(TrimRequired(t))))

InitAnalyse ==
    /\ df_raw \in RawSheets(MaxSheetRows)
    /\ df_agg = <<>>
    /\ pc3a = "start"
    /\ IdleThree
    /\ IdleTwo
    /\ IdleEight
    /\ IdleOne
    /\ IdleGui

\* The sheet lacks a required column: ValueError, which the handler of the
\* first try block logs before analyse returns.
MissingColumns ==
    /\ pc3a = "start"
    /\ ~HasRequiredCols(df_raw.cols)
    /\ pc3a' = "init_error"
    /\ UNCHANGED <<df_raw, df_agg>>
    /\ UNCHANGED <<varsThree, varsTwo, varsEight, varsOne, varsGui>>

\* The preprocessing of the second try block, which builds df_agg, the table
\* flag_anomalies is then called on. df[required_cols] raises KeyError when
\* the sheet lacks one of the columns; the handler logs it and analyse returns.
Preprocess ==
    /\ pc3a = "start"
    /\ HasRequiredCols(df_raw.cols)
    /\ IF Range(RequiredCols) \subseteq Range(df_raw.cols)
       THEN /\ df_agg' = DfAgg(df_raw.rows)
            /\ pc3a' = "preprocessed"
       ELSE /\ df_agg' = <<>>
            /\ pc3a' = "processing_error"
    /\ UNCHANGED df_raw
    /\ UNCHANGED <<varsThree, varsTwo, varsEight, varsOne, varsGui>>

NextAnalyse == MissingColumns \/ Preprocess

SpecAnalyse == InitAnalyse /\ [][NextAnalyse]_vars

(***************************************************************************)
(* Service two: alignment and cell comparison of two tables                *)
(***************************************************************************)
\* Bound of the model
MaxRows == 2         \* rows of each input table

\* Text values are sequences of code points: 32 is ' ', 65 'A', 97 'a'.

\* A missing value (NaN) of a text column.
NaNKey == <<0>>

\* Key values of the inputs: 'a', ' A' (equal to 'a' once stripped and
\* lower-cased) and a missing key.
KeyValues == { <<97>>, <<32, 65>>, NaNKey }

\* Cell values of the compared columns; "nan" is a missing cell.
CellValues1 == {"1", "nan"}
CellValues2 == {"1", "2"}
CompareColumns == <<"c1", "c2">>

\* The rows a table may hold; the cells of a row whose key is missing are
\* irrelevant (the row is dropped) and are fixed.
RowValues ==
    { r \in [key : KeyValues, c1 : CellValues1, c2 : CellValues2] :
        r.key = NaNKey => (r.c1 = "1" /\ r.c2 = "1") }

Tables(n) == UNION { [1..m -> RowValues] : m \in 0..n }

\* Variant of IsNaKey that takes no key for missing.
IsNaKeyNever(k) == FALSE

\* pd.isna on a key and on a cell.
IsNaKey(k) == k = NaNKey
IsNaCell(v) == v = "nan"

\* str.strip(): drop the leading and trailing spaces.
RECURSIVE LStrip(_)
LStrip(k) == IF k # <<>> /\ Head(k) = 32 THEN LStrip(Tail(k)) ELSE k
RECURSIVE RStrip(_)
RStrip(k) == IF k # <<>> /\ k[Len(k)] = 32 THEN RStrip(SubSeq(k, 1, Len(k) - 1)) ELSE k
Strip(k) == RStrip(LStrip(k))

\* str.lower() on the letters A..Z.
Lower(k) == [p \in DOMAIN k |-> IF k[p] >= 65 /\ k[p] <= 90 THEN k[p] + 32 ELSE k[p]]

\* The normalized form of a key: stripped and lower-cased.
Normalize(k) == Lower(Strip(k))

\* Python's order on strings: lexicographic by code point.
RECURSIVE KeyLess(_, _)
KeyLess(a, b) ==
    IF b = <<>> THEN FALSE
    ELSE IF a = <<>> THEN TRUE
    ELSE IF Head(a) # Head(b) THEN Head(a) < Head(b)
    ELSE KeyLess(Tail(a), Tail(b))

\* Variant of MatchKey that strips and lower-cases the key before matching.
MatchKeyNormalized(k) == Normalize(k)

\* The key under which compare matches rows: the cell value as it is.
MatchKey(k) == k

\* set(df[unique_key].dropna())
KeySet(t) == { MatchKey(t[p].key) : p \in { q \in DOMAIN t : ~IsNaKey(t[q].key) } }

\* common_keys = df1_keys.intersection(df2_keys)
CommonKeys(t1, t2) == KeySet(t1) \cap KeySet(t2)

\* df[df[unique_key].isin(common_keys)]: the rows whose key is a common key,
\* in their order.
RECURSIVE FilterRows(_, _)
FilterRows(t, keys) ==
    IF t = <<>> THEN <<>>
    ELSE (IF ~IsNaKey(Head(t).key) /\ MatchKey(Head(t).key) \in keys
          THEN <<Head(t)>> ELSE <<>>) \o FilterRows(Tail(t), keys)

\* The order of sort_values(by=sortable_columns): the unique key first, then
\* the column that is not compared ("s"), when the tables have one.
RowLess(x, y) ==
    \/ KeyLess(x.key, y.key)
    \/ /\ x.key = y.key
       /\ "s" \in DOMAIN x
       /\ KeyLess(x.s, y.s)

\* sort_values(by=sortable_columns).reset_index(drop=True): ascending, rows
\* that are equal on the sort columns in their previous order.
RECURSIVE SortRows(_)
SortRows(t) ==
    IF t = <<>> THEN <<>>
    ELSE LET x == t[Len(t)]
             RECURSIVE Ins(_)
             Ins(u) == IF u = <<>> THEN <<x>>
                       ELSE IF RowLess(x, Head(u)) THEN <<x>> \o u
                            ELSE <<Head(u)>> \o Ins(Tail(u))
         IN Ins(SortRows(SubSeq(t, 1, Len(t) - 1)))

Aligned(t, other) == SortRows(FilterRows(t, CommonKeys(t, other)))

\* config.service_two.unique_key
UniqueKey == "key"

\* set(df1.columns).intersection(set(df2.columns))
CommonColumns(cs1, cs2) == Range(cs1) \cap Range(cs2)

\* Variant of HasUniqueKey that looks at the columns of the first sheet only.
HasUniqueKeyInFirst(cs1, cs2) == UniqueKey \in Range(cs1)

\* `unique_key in common_columns`
HasUniqueKey(cs1, cs2) == UniqueKey \in CommonColumns(cs1, cs2)

\* The columns of stable_columns other than the unique key: the common
\* columns that are not compared.
StableColumns(cs1, cs2) ==
    CommonColumns(cs1, cs2) \ (Range(CompareColumns) \cup {UniqueKey})

\* The orders in which list(set(...)) may enumerate the set S: the iteration
\* order of a set of strings follows their hashes, which Python draws anew
\* for every process.
Orderings(S) == { o \in [1..Cardinality(S) -> S] : Range(o) = S }

\* The values sortable_columns may take: the unique key first, then the other
\* stable columns in the order common_columns enumerated them.
SortableColumnOrders(cs1, cs2) ==
    { <<UniqueKey>> \o o : o \in Orderings(StableColumns(cs1, cs2)) }

\* df[reordered_columns]: the columns of the common set only.
Project(t, keep) == [p \in DOMAIN t |-> [f \in keep |-> t[p][f]]]

\* The order of sort_values(by=cols) on two rows: the first column of cols on
\* which the rows differ decides.
RECURSIVE RowLessBy(_, _, _)
RowLessBy(x, y, cols) ==
    IF cols = <<>> THEN FALSE
    ELSE \/ KeyLess(x[Head(cols)], y[Head(cols)])
         \/ /\ x[Head(cols)] = y[Head(cols)]
            /\ RowLessBy(x, y, Tail(cols))

\* sort_values(by=cols).reset_index(drop=True)
RECURSIVE SortRowsBy(_, _)
SortRowsBy(t, cols) ==
    IF t = <<>> THEN <<>>
    ELSE LET x == t[Len(t)]
             RECURSIVE Ins(_)
             Ins(u) == IF u = <<>> THEN <<x>>
                       ELSE IF RowLessBy(x, Head(u), cols) THEN <<x>> \o u
                            ELSE <<Head(u)>> \o Ins(Tail(u))
         IN Ins(SortRowsBy(SubSeq(t, 1, Len(t) - 1), cols))

\* df_aligned of the table t: its columns cut to the common ones, its rows to
\* those of the common keys, sorted by cols.
AlignedBy(t, other, keep, cols) ==
    SortRowsBy(Project(FilterRows(t, CommonKeys(t, other)), keep), cols)

\* Variant of BothMissing without the pd.isna guard.
BothMissingNever(v1, v2) == FALSE

\* Whether the cell pair is skipped before the comparison:
\* `if pd.isna(val1) and pd.isna(val2): continue`.
BothMissing(v1, v2) == IsNaCell(v1) /\ IsNaCell(v2)

\* Python's val1 != val2: NaN differs from everything, itself included.
CellsDiffer(v1, v2) == v1 # v2 \/ IsNaCell(v1) \/ IsNaCell(v2)

\* The records appended for row idx (0-based), column by column.
RECURSIVE RowMismatches(_, _, _, _)
RowMismatches(a, b, idx, cols) ==
    IF cols = <<>> THEN <<>>
    ELSE LET col == Head(cols)
             v1  == a[idx + 1][col]
             v2  == b[idx + 1][col]
         IN (IF ~BothMissing(v1, v2) /\ CellsDiffer(v1, v2)
             THEN << <<idx, col>> >> ELSE <<>>)
            \o RowMismatches(a, b, idx, Tail(cols))

\* Variant of AllMismatches whose loop stops one row early.
RECURSIVE AllMismatchesSkipLast(_, _, _)
AllMismatchesSkipLast(a, b, idx) ==
    IF idx >= Len(a) - 1 THEN <<>>
    ELSE RowMismatches(a, b, idx, CompareColumns) \o AllMismatchesSkipLast(a, b, idx + 1)

\* The records appended by `for idx in range(len(df1_aligned))`, from row idx on.
RECURSIVE AllMismatches(_, _, _)
AllMismatches(a, b, idx) ==
    IF idx >= Len(a) THEN <<>>
    ELSE RowMismatches(a, b, idx, CompareColumns) \o AllMismatches(a, b, idx + 1)

\* f"{val1} → {val2}"
TransitionString(v1, v2) == v1 \o " → " \o v2

\* Variant of ResultCell that never replaces the cell.
ResultCellKept(a, b, idx, col) == a[idx + 1][col]

\* The cell of result_df at row idx (0-based), compared column col, after the
\* loop: the transition string where a record was appended, else the value
\* copied from df1_aligned.
ResultCell(a, b, idx, col) ==
    LET v1 == a[idx + 1][col]
        v2 == b[idx + 1][col]
    IN IF ~BothMissing(v1, v2) /\ CellsDiffer(v1, v2)
       THEN TransitionString(v1, v2) ELSE v1

\* result_df after the loop: a copy of df1_aligned whose cells of the compared
\* columns went through the loop.
ResultTable(a, b) ==
    [p \in DOMAIN a |->
        [f \in DOMAIN a[p] |->
            IF f \in Range(CompareColumns) THEN ResultCell(a, b, p - 1, f)
            ELSE a[p][f]]]

\* The outcome of compare on the tables (t1, t2): the alignment, then the value
\* comparison, which raises when the first aligned table is the longer one.
CompareRun(t1, t2) ==
    LET a == Aligned(t1, t2)
        b == Aligned(t2, t1)
    IN [raises |-> Len(a) > Len(b),
        recs   |-> IF Len(a) > Len(b) THEN <<>> ELSE AllMismatches(a, b, 0)]

InitTwo ==
    /\ df1 \in Tables(MaxRows)
    /\ df2 \in Tables(MaxRows)
    /\ df1_aligned = <<>>
    /\ df2_aligned = <<>>
    /\ mismatches = <<>>
    /\ result_df = <<>>
    /\ pc2 = "loaded"
    /\ columns1 = <<"key", "c1", "c2">>
    /\ columns2 = <<"key", "c1", "c2">>
    /\ sortable_columns = <<>>
    /\ IdleThree
    /\ IdleEight
    /\ IdleOne
    /\ IdleAnalyse
    /\ IdleGui

\* Bound of the inputs that have a column which is not compared
MaxStableRows == 2   \* rows of each input table

\* The rows of a table with the columns (key, s, c1, c2), s being a text
\* column that is not in compare_columns: 'x' (120) or 'y' (121).
StableRowValues ==
    [key : { <<97>> }, s : { <<120>>, <<121>> }, c1 : CellValues1, c2 : CellValues2]

StableTables(n) == UNION { [1..m -> StableRowValues] : m \in 0..n }

InitTwoStable ==
    /\ df1 \in StableTables(MaxStableRows)
    /\ df2 \in StableTables(MaxStableRows)
    /\ df1_aligned = <<>>
    /\ df2_aligned = <<>>
    /\ mismatches = <<>>
    /\ result_df = <<>>
    /\ pc2 = "loaded"
    /\ columns1 = <<"key", "s", "c1", "c2">>
    /\ columns2 = <<"key", "s", "c1", "c2">>
    /\ sortable_columns = <<>>
    /\ IdleThree
    /\ IdleEight
    /\ IdleOne
    /\ IdleAnalyse
    /\ IdleGui

\* Bound of the inputs whose sheets differ in their columns
MaxColumnRows == 2   \* rows of each input table

\* Rows of a sheet with the columns (key, s, t, c1, c2), s and t being text
\* columns that are not compared; of a second sheet without the column t;
\* and of a sheet in which the key column is absent.
FullRows1 == [key : { <<97>> }, s : { <<120>>, <<121>> }, t : { <<120>>, <<121>> },
              c1 : {"1", "2"}, c2 : {"1"}]
FullRows2 == [key : { <<97>> }, s : { <<120>>, <<121>> }, t : { <<120>>, <<121>> },
              c1 : {"1"}, c2 : {"1"}]
NarrowRows2 == [key : { <<97>> }, s : { <<120>>, <<121>> }, c1 : {"1"}, c2 : {"1"}]
NoKeyRows == [s : { <<120>> }, t : { <<120>> }, c1 : {"1", "2"}, c2 : {"1"}]

\* The sheets with the columns cs and at most n rows drawn from rs.
ColumnSheets(cs, rs, n) ==
    { [cols |-> cs, rows |-> t] : t \in UNION { [1..m -> rs] : m \in 0..n } }

InitTwoColumns ==
    /\ \E sh1 \in ColumnSheets(<<"key", "s", "t", "c1", "c2">>, FullRows1, MaxColumnRows)
                  \cup ColumnSheets(<<"s", "t", "c1", "c2">>, NoKeyRows, MaxColumnRows),
          sh2 \in ColumnSheets(<<"key", "s", "t", "c1", "c2">>, FullRows2, MaxColumnRows)
                  \cup ColumnSheets(<<"key", "s", "c1", "c2">>, NarrowRows2, MaxColumnRows)
                  \cup ColumnSheets(<<"s", "t", "c1", "c2">>, NoKeyRows, MaxColumnRows) :
          /\ df1 = sh1.rows
          /\ columns1 = sh1.cols
          /\ df2 = sh2.rows
          /\ columns2 = sh2.cols
    /\ df1_aligned = <<>>
    /\ df2_aligned = <<>>
    /\ mismatches = <<>>
    /\ result_df = <<>>
    /\ pc2 = "loaded"
    /\ sortable_columns = <<>>
    /\ IdleThree
    /\ IdleEight
    /\ IdleOne
    /\ IdleAnalyse
    /\ IdleGui

\* The unique key is not a column of both sheets: compare logs the error and
\* returns before it touches the tables.
KeyMissing ==
    /\ pc2 = "loaded"
    /\ ~HasUniqueKey(columns1, columns2)
    /\ pc2' = "nokey"
    /\ UNCHANGED <<df1, df2, df1_aligned, df2_aligned, mismatches, result_df,
                   columns1, columns2, sortable_columns>>
    /\ UNCHANGED <<varsThree, varsEight, varsOne, varsAnalyse, varsGui>>

\* Alignment: both tables cut to the common columns and to the rows of the
\* common keys, then sorted by sortable_columns. df[reordered_columns] raises
\* KeyError when the table lacks one of the columns; the exception handler
\* logs it and no report is written.
Align ==
    /\ pc2 = "loaded"
    /\ HasUniqueKey(columns1, columns2)
    /\ \E cols \in SortableColumnOrders(columns1, columns2) :
          LET keep == CommonColumns(columns1, columns2) \cup {UniqueKey}
          IN IF keep \subseteq Range(columns1) /\ keep \subseteq Range(columns2)
             THEN /\ sortable_columns' = cols
                  /\ df1_aligned' = AlignedBy(df1, df2, keep, cols)
                  /\ df2_aligned' = AlignedBy(df2, df1, keep, cols)
                  /\ pc2' = "aligned"
             ELSE /\ sortable_columns' = <<>>
                  /\ df1_aligned' = <<>>
                  /\ df2_aligned' = <<>>
                  /\ pc2' = "error"
    /\ UNCHANGED <<df1, df2, mismatches, result_df, columns1, columns2>>
    /\ UNCHANGED <<varsThree, varsEight, varsOne, varsAnalyse, varsGui>>

\* Value comparison: every row of df1_aligned against the row of df2_aligned
\* at the same position.
CompareValues ==
    /\ pc2 = "aligned"
    /\ Len(df1_aligned) <= Len(df2_aligned)
    /\ mismatches' = AllMismatches(df1_aligned, df2_aligned, 0)
    /\ result_df' = ResultTable(df1_aligned, df2_aligned)
    /\ pc2' = "done"
    /\ UNCHANGED <<df1, df2, df1_aligned, df2_aligned, columns1, columns2,
                   sortable_columns>>
    /\ UNCHANGED <<varsThree, varsEight, varsOne, varsAnalyse, varsGui>>

\* df2_aligned.iloc[idx] raises IndexError when df1_aligned has more rows;
\* the exception handler logs it and no report is written.
CompareRaises ==
    /\ pc2 = "aligned"
    /\ Len(df1_aligned) > Len(df2_aligned)
    /\ mismatches' = <<>>
    /\ result_df' = <<>>
    /\ pc2' = "error"
    /\ UNCHANGED <<df1, df2, df1_aligned, df2_aligned, columns1, columns2,
                   sortable_columns>>
    /\ UNCHANGED <<varsThree, varsEight, varsOne, varsAnalyse, varsGui>>

NextTwo == Align \/ CompareValues \/ CompareRaises

SpecTwo == InitTwo /\ [][NextTwo]_vars

SpecTwoStable == InitTwoStable /\ [][NextTwo]_vars

NextTwoColumns == KeyMissing \/ Align \/ CompareValues \/ CompareRaises

SpecTwoColumns == InitTwoColumns /\ [][NextTwoColumns]_vars

(***************************************************************************)
(* Service eight: outer-join merge of several tables                       *)
(***************************************************************************)
\* Bounds of the model
MaxTables == 3       \* entries of file_paths
MaxKeyRows == 2      \* rows of each table

\* None (no merged frame): a merged frame always has the merge_key column.
NoDf == [cols |-> <<>>, rows |-> <<>>]

\* A missing cell of a non-key column; a present cell <<t, r>> is the value
\* of row r of table t.
NaNCell == <<0, 0>>

\* The declared merging column of every file, and the other column.
KeyColumn == "id"
ValueColumn == "v"

\* Key values of the merged tables: 'a' and a missing key.
MergeKeyValues == { <<97>>, NaNKey }

\* 'nan', the text astype(str) makes of a missing value.
NanText == <<110, 97, 110>>

\* The sheet number t with the key values ks: columns (id, v), or the column v
\* alone when ks is not given.
KeyedTable(t, ks) ==
    [cols |-> <<KeyColumn, ValueColumn>>,
     rows |-> [r \in DOMAIN ks |-> <<ks[r], <<t, r>>>>],
     mcol |-> KeyColumn]
UnkeyedTable(t) ==
    [cols |-> <<ValueColumn>>, rows |-> << <<<<t, 1>>>> >>, mcol |-> KeyColumn]

KeySeqs(n) == UNION { [1..m -> MergeKeyValues] : m \in 0..n }

\* `merging_column not in df.columns` is false.
HasKeyColumn(t) == t.mcol \in Range(t.cols)

\* df[merging_column].astype(str).fillna(''): a missing value has become the
\* text 'nan' before fillna looks at it.
AsTypeStr(k) == IF IsNaKey(k) THEN NanText ELSE k
FillNaEmpty(k) == IF IsNaKey(k) THEN <<>> ELSE k
CoerceKey(k) == FillNaEmpty(AsTypeStr(k))

\* The table with its merging column coerced and renamed to merge_key.
Prepare(t) ==
    [cols |-> [p \in DOMAIN t.cols |->
                 IF t.cols[p] = t.mcol THEN "merge_key" ELSE t.cols[p]],
     rows |-> [r \in DOMAIN t.rows |->
                 [p \in DOMAIN t.cols |->
                    IF t.cols[p] = t.mcol THEN CoerceKey(t.rows[r][p])
                    ELSE t.rows[r][p]]]]

\* get_ordinal(n)
Ordinal(n) ==
    IF 10 <= n /\ n <= 20 THEN "th"
    ELSE CASE n % 10 = 1 -> "st"
           [] n % 10 = 2 -> "nd"
           [] n % 10 = 3 -> "rd"
           [] OTHER -> "th"

\* get_ordinal_word(n)
OrdinalWord(n) ==
    CASE n = 1 -> "first"
      [] n = 2 -> "second"
      [] n = 3 -> "third"
      [] n = 4 -> "fourth"
      [] n = 5 -> "fifth"
      [] OTHER -> ToString(n) \o Ordinal(n)

KeyPos(cols) == CHOOSE p \in DOMAIN cols : cols[p] = "merge_key"

\* The sequence s without its element at position p.
Without(s, p) == SubSeq(s, 1, p - 1) \o SubSeq(s, p + 1, Len(s))

KeysOf(m) == { m.rows[r][KeyPos(m.cols)] : r \in DOMAIN m.rows }

\* The rows of m whose merge_key is k, in their order.
RowsWithKey(m, k) ==
    LET kp == KeyPos(m.cols)
        RECURSIVE Pick(_)
        Pick(rs) == IF rs = <<>> THEN <<>>
                    ELSE (IF Head(rs)[kp] = k THEN <<Head(rs)>> ELSE <<>>)
                         \o Pick(Tail(rs))
    IN Pick(m.rows)

\* The keys of the set K in ascending order.
RECURSIVE SortedKeys(_)
SortedKeys(K) ==
    IF K = {} THEN <<>>
    ELSE LET least == CHOOSE k \in K : \A o \in K \ {k} : KeyLess(k, o)
         IN <<least>> \o SortedKeys(K \ {least})

\* Variant of JoinKeys for how='inner'.
JoinKeysInner(l, r) == KeysOf(l) \cap KeysOf(r)

\* The keys of the join: every key of either side for how='outer'.
JoinKeys(l, r) == KeysOf(l) \cup KeysOf(r)

\* pd.merge(l, r, on='merge_key', how='outer', suffixes=('', suffix)): the
\* columns of l, then the non-key columns of r, one of which gets the suffix
\* when its name is a column of l; per key the pairs of matching rows, a row
\* without a match keeping missing cells on the other side.
MergeOuter(l, r, suffix) ==
    LET lk    == KeyPos(l.cols)
        rk    == KeyPos(r.cols)
        rcols == Without(r.cols, rk)
        cols  == l.cols \o [p \in DOMAIN rcols |->
                              IF rcols[p] \in Range(l.cols)
                              THEN rcols[p] \o suffix ELSE rcols[p]]
        lnan(k) == [p \in DOMAIN l.cols |-> IF p = lk THEN k ELSE NaNCell]
        rnan    == [p \in DOMAIN rcols |-> NaNCell]
        RECURSIVE Pairs(_, _)
        Pairs(L, R) ==
            IF L = <<>> THEN <<>>
            ELSE [q \in DOMAIN R |-> Head(L) \o Without(R[q], rk)] \o Pairs(Tail(L), R)
        RowsOf(k) ==
            LET L == RowsWithKey(l, k)
                R == RowsWithKey(r, k)
            IN IF R = <<>> THEN [q \in DOMAIN L |-> L[q] \o rnan]
               ELSE IF L = <<>> THEN [q \in DOMAIN R |-> lnan(k) \o Without(R[q], rk)]
               ELSE Pairs(L, R)
        RECURSIVE Rows(_)
        Rows(ks) == IF ks = <<>> THEN <<>> ELSE RowsOf(Head(ks)) \o Rows(Tail(ks))
    IN [cols |-> cols, rows |-> Rows(SortedKeys(JoinKeys(l, r)))]

\* Variant of AfterMissingKey that drops what was merged so far.
AfterMissingKeyReset(m) == NoDf

\* merged_df after a file whose merging column is missing: `continue` leaves
\* it as it is.
AfterMissingKey(m) == m

\* merged_df after the file at (1-based) position pos of file_paths.
MergeFile(m, t, pos) ==
    IF ~HasKeyColumn(t) THEN AfterMissingKey(m)
    ELSE IF m = NoDf THEN Prepare(t)
    ELSE MergeOuter(m, Prepare(t), "_" \o OrdinalWord(pos))

\* service_merge on the files ts when no file raises: merged_df after the loop.
RECURSIVE MergeAll(_, _, _)
MergeAll(m, ts, pos) ==
    IF pos > Len(ts) THEN m
    ELSE MergeAll(MergeFile(m, ts[pos], pos), ts, pos + 1)

InitEight ==
    /\ \E n \in 0..MaxTables :
       \E keyed \in [1..n -> BOOLEAN] :
       \E ks \in [1..n -> KeySeqs(MaxKeyRows)] :
          /\ \A t \in 1..n : ~keyed[t] => ks[t] = <<>>
          /\ tables = [t \in 1..n |->
                         IF keyed[t] THEN KeyedTable(t, ks[t]) ELSE UnkeyedTable(t)]
    /\ fi = 1
    /\ merged_df = NoDf
    /\ pc8 = "merging"
    /\ IdleThree
    /\ IdleTwo
    /\ IdleOne
    /\ IdleAnalyse
    /\ IdleGui

\* The merging column is not in the sheet: warning, `continue`.
SkipFile ==
    /\ pc8 = "merging"
    /\ fi <= Len(tables)
    /\ ~HasKeyColumn(tables[fi])
    /\ merged_df' = MergeFile(merged_df, tables[fi], fi)
    /\ fi' = fi + 1
    /\ UNCHANGED <<tables, pc8>>
    /\ UNCHANGED <<varsThree, varsTwo, varsOne, varsAnalyse, varsGui>>

\* The first sheet that has its merging column becomes the base.
BaseFile ==
    /\ pc8 = "merging"
    /\ fi <= Len(tables)
    /\ HasKeyColumn(tables[fi])
    /\ merged_df = NoDf
    /\ merged_df' = MergeFile(merged_df, tables[fi], fi)
    /\ fi' = fi + 1
    /\ UNCHANGED <<tables, pc8>>
    /\ UNCHANGED <<varsThree, varsTwo, varsOne, varsAnalyse, varsGui>>

\* A later sheet is merged onto the base.
JoinFile ==
    /\ pc8 = "merging"
    /\ fi <= Len(tables)
    /\ HasKeyColumn(tables[fi])
    /\ merged_df # NoDf
    /\ merged_df' = MergeFile(merged_df, tables[fi], fi)
    /\ fi' = fi + 1
    /\ UNCHANGED <<tables, pc8>>
    /\ UNCHANGED <<varsThree, varsTwo, varsOne, varsAnalyse, varsGui>>

\* Reading or merging the file raises: the handler logs it and returns None.
FileRaises ==
    /\ pc8 = "merging"
    /\ fi <= Len(tables)
    /\ merged_df' = NoDf
    /\ pc8' = "failed"
    /\ UNCHANGED <<tables, fi>>
    /\ UNCHANGED <<varsThree, varsTwo, varsOne, varsAnalyse, varsGui>>

\* After the loop: merged_df is returned (None when no file was processed).
ReturnMerged ==
    /\ pc8 = "merging"
    /\ fi > Len(tables)
    /\ pc8' = "done"
    /\ UNCHANGED <<tables, fi, merged_df>>
    /\ UNCHANGED <<varsThree, varsTwo, varsOne, varsAnalyse, varsGui>>

NextEight == SkipFile \/ BaseFile \/ JoinFile \/ FileRaises \/ ReturnMerged

SpecEight == InitEight /\ [][NextEight]_vars

(***************************************************************************)
(* Service eight: sheets with several columns besides the merging column   *)
(***************************************************************************)
\* Bounds of the model
MaxColTables == 2    \* entries of file_paths
MaxColRows == 1      \* rows of each sheet

\* The columns a sheet has besides its merging column; a sheet with the
\* columns v and v_second is what an earlier merge of two sheets with a
\* column v returned.
ColumnSets == { <<"v">>, <<"v", "v_second">>, <<"w">> }

\* The sheet number t with the columns cs after its merging column (when it
\* has one) and one row per key of ks; every cell of row r is <<t, r>>.
ColTable(t, keyed, cs, ks) ==
    [cols |-> (IF keyed THEN <<KeyColumn>> ELSE <<>>) \o cs,
     rows |-> [r \in DOMAIN ks |->
                 (IF keyed THEN <<ks[r]>> ELSE <<>>)
                    \o [c \in DOMAIN cs |-> <<t, r>>]],
     mcol |-> KeyColumn]

InitEightCols ==
    /\ \E n \in 1..MaxColTables :
       \E keyed \in [1..n -> BOOLEAN] :
       \E cs \in [1..n -> ColumnSets] :
       \E ks \in [1..n -> KeySeqs(MaxColRows)] :
          tables = [t \in 1..n |-> ColTable(t, keyed[t], cs[t], ks[t])]
    /\ fi = 1
    /\ merged_df = NoDf
    /\ pc8 = "merging"
    /\ IdleThree
    /\ IdleTwo
    /\ IdleOne
    /\ IdleAnalyse
    /\ IdleGui

SpecEightCols == InitEightCols /\ [][NextEight]_vars

(***************************************************************************)
(* Service eight: the selection widgets and the lists they save            *)
(***************************************************************************)
\* Bound of the model
MaxFiles == 2        \* files on disk, and files one dialog may return

\* The files, and the names their sheet and key-column dropdowns offer.
Files == 1..MaxFiles
SheetChoices == {"Sheet1", "Sheet2"}
ColumnChoices == {"id"}

\* What filedialog.askopenfilenames may return when files were picked.
Selections ==
    { sel \in UNION { [1..n -> Files] : n \in 1..MaxFiles } :
        \A p, q \in DOMAIN sel : p # q => sel[p] # sel[q] }

\* An entry of sheet_names or merging_columns: the empty string, or the name
\* picked in a dropdown together with the file whose dropdown it was.
NoChoice == [file |-> 0, name |-> ""]
Choice(f, nm) == [file |-> f, name |-> nm]

\* The configuration as clear_service_eight_config left it when the window
\* was closed the last time; dropdown_frame is empty.
InitGui ==
    /\ file_paths = <<>>
    /\ sheet_names = <<>>
    /\ merging_columns = <<>>
    /\ sheet_dropdowns = {}
    /\ column_dropdowns = {}
    /\ pc8g = "open"
    /\ IdleThree
    /\ IdleTwo
    /\ IdleEight
    /\ IdleOne
    /\ IdleAnalyse

\* select_files with a selection: file_paths and sheet_names are saved anew,
\* the frame is cleared and gets one sheet dropdown per file.
SelectFiles ==
    /\ pc8g = "open"
    /\ \E sel \in Selections :
          /\ file_paths' = sel
          /\ sheet_names' = [p \in DOMAIN sel |-> NoChoice]
          /\ sheet_dropdowns' = { p - 1 : p \in DOMAIN sel }
    /\ column_dropdowns' = {}
    /\ UNCHANGED <<merging_columns, pc8g>>
    /\ UNCHANGED <<varsThree, varsTwo, varsEight, varsOne, varsAnalyse>>

\* on_sheet_select of the dropdown idx: the choice is saved at sheet_names[idx].
OnSheetSelect ==
    /\ pc8g = "open"
    /\ \E idx \in sheet_dropdowns, choice \in SheetChoices :
          /\ idx < Len(sheet_names)
          /\ sheet_names' =
                [sheet_names EXCEPT ![idx + 1] = Choice(file_paths[idx + 1], choice)]
    /\ UNCHANGED <<file_paths, merging_columns, sheet_dropdowns, column_dropdowns, pc8g>>
    /\ UNCHANGED <<varsThree, varsTwo, varsEight, varsOne, varsAnalyse>>

\* create_column_dropdowns: merging_columns is saved anew with the length of
\* file_paths, and every file with a sheet gets a key-column dropdown; the
\* frame is not cleared.
CreateColumnDropdowns ==
    /\ pc8g = "open"
    /\ merging_columns' = [p \in DOMAIN file_paths |-> NoChoice]
    /\ column_dropdowns' =
          column_dropdowns \cup
             { p - 1 : p \in { q \in DOMAIN file_paths : sheet_names[q] # NoChoice } }
    /\ UNCHANGED <<file_paths, sheet_names, sheet_dropdowns, pc8g>>
    /\ UNCHANGED <<varsThree, varsTwo, varsEight, varsOne, varsAnalyse>>

\* on_column_select of the dropdown idx: the choice is saved at
\* merging_columns[idx].
OnColumnSelect ==
    /\ pc8g = "open"
    /\ \E idx \in column_dropdowns, choice \in ColumnChoices :
          /\ idx < Len(merging_columns)
          /\ merging_columns' =
                [merging_columns EXCEPT ![idx + 1] = Choice(file_paths[idx + 1], choice)]
    /\ UNCHANGED <<file_paths, sheet_names, sheet_dropdowns, column_dropdowns, pc8g>>
    /\ UNCHANGED <<varsThree, varsTwo, varsEight, varsOne, varsAnalyse>>

\* clear_service_eight_config, which terminate_program calls when the window
\* is closed: the lists are saved empty and the widgets go with the window.
\* The next session opens as InitGui.
ClearServiceEightConfig ==
    /\ pc8g = "open"
    /\ file_paths' = <<>>
    /\ sheet_names' = <<>>
    /\ merging_columns' = <<>>
    /\ sheet_dropdowns' = {}
    /\ column_dropdowns' = {}
    /\ pc8g' = "closed"
    /\ UNCHANGED <<varsThree, varsTwo, varsEight, varsOne, varsAnalyse>>

NextGui ==
    \/ SelectFiles
    \/ OnSheetSelect
    \/ CreateColumnDropdowns
    \/ OnColumnSelect
    \/ ClearServiceEightConfig

SpecGui == InitGui /\ [][NextGui]_vars

(***************************************************************************)
(* Service one: forecast comparison pivot                                  *)
(***************************************************************************)
\* Bound of the model
MaxForecastRows == 2 \* rows of each sheet

\* The ids of sheet 1 are 'a', ' A' and 'b', those of sheet 2 'a' and 'c'.
Ids1 == { <<97>>, <<32, 65>>, <<98>> }
Ids2 == { <<97>>, <<99>> }

\* A forecast cell is a number or a text that is no number.
Forecasts1 == { [kind |-> "number", val |-> 100], [kind |-> "text", val |-> 0] }
Forecasts2 == { [kind |-> "number", val |-> 80], [kind |-> "number", val |-> 100] }

\* The value of the extra column of every row of sheet 1: 'r'.
RegionValue == <<114>>

\* The cell of a column that the frame does not have.
NotPulled == <<0, 0>>

Sheet1Rows == [id : Ids1, fc : Forecasts1, region : {RegionValue}]
Sheet2Rows == [id : Ids2, fc : Forecasts2]
Sheets(R, n) == UNION { [1..m -> R] : m \in 0..n }

HasExtra == extra_cols # <<>>

\* astype(str).str.strip().str.lower()
NormalizeId(k) == Normalize(AsTypeStr(k))

\* pd.to_numeric(errors='coerce'): <<v>> for the number v, <<>> (NaN) for a text;
\* fillna(0).
ToNumeric(c) == IF c.kind = "number" THEN <<c.val>> ELSE <<>>
FillNaZero(v) == IF v = <<>> THEN 0 ELSE v[1]

\* excel1_trim with its id normalized, its forecast numeric and its source.
Trim1(t) ==
    [p \in DOMAIN t |->
        [id     |-> NormalizeId(t[p].id),
         fc     |-> FillNaZero(ToNumeric(t[p].fc)),
         region |-> IF HasExtra THEN t[p].region ELSE NotPulled,
         Source |-> "source1"]]

\* excel2_trim.merge(excel1_trim[merge_cols], on=id, how='left'), then the
\* forecast made numeric and the source added: per row of sheet 2, in order,
\* one row for every row of sheet 1 with the same id, carrying its extra
\* column, or one row with a missing extra column when there is none.
RECURSIVE LeftMerge(_, _)
LeftMerge(b, a) ==
    IF b = <<>> THEN <<>>
    ELSE LET k == NormalizeId(Head(b).id)
             v == FillNaZero(ToNumeric(Head(b).fc))
             RECURSIVE Matches(_)
             Matches(rs) ==
                 IF rs = <<>> THEN <<>>
                 ELSE (IF rs[1].id = k
                       THEN <<[id |-> k, fc |-> v, region |-> rs[1].region,
                               Source |-> "source2"]>>
                       ELSE <<>>) \o Matches(Tail(rs))
             m == Matches(a)
         IN (IF m = <<>>
             THEN <<[id |-> k, fc |-> v,
                     region |-> IF HasExtra THEN NaNKey ELSE NotPulled,
                     Source |-> "source2"]>>
             ELSE m) \o LeftMerge(Tail(b), a)

\* The pivot index of a stacked row: the id, then the extra column.
IndexOf(r) == IF HasExtra THEN <<r.id, r.region>> ELSE <<r.id>>

\* The groupby of pivot_table leaves out a row with a missing index value.
HasNaIndex(r) == HasExtra /\ IsNaKey(r.region)

\* The rows of the stacked frame c that take part in the pivot, in order.
RECURSIVE PivotInput(_)
PivotInput(c) ==
    IF c = <<>> THEN <<>>
    ELSE (IF HasNaIndex(Head(c)) THEN <<>> ELSE <<Head(c)>>) \o PivotInput(Tail(c))

\* The order of the pivot index: by id, then by the extra column.
IndexLess(x, y) ==
    \/ KeyLess(x[1], y[1])
    \/ x[1] = y[1] /\ Len(x) = 2 /\ KeyLess(x[2], y[2])

RECURSIVE SortedIndex(_)
SortedIndex(S) ==
    IF S = {} THEN <<>>
    ELSE LET least == CHOOSE x \in S : \A o \in S \ {x} : IndexLess(x, o)
         IN <<least>> \o SortedIndex(S \ {least})

\* Variant of AggFirst for aggfunc='last'.
AggLast(c, ix, src) ==
    LET P == { p \in DOMAIN c : IndexOf(c[p]) = ix /\ c[p].Source = src }
    IN IF P = {} THEN <<>> ELSE <<c[CHOOSE p \in P : \A q \in P : q <= p].fc>>

\* aggfunc='first' on the rows of index ix and source src: the forecast of the
\* first of them, <<>> (NaN) when there is none.
AggFirst(c, ix, src) ==
    LET P == { p \in DOMAIN c : IndexOf(c[p]) = ix /\ c[p].Source = src }
    IN IF P = {} THEN <<>> ELSE <<c[CHOOSE p \in P : \A q \in P : p <= q].fc>>

\* pivot_table['source1'] - pivot_table['source2']
Difference(s1, s2) == s1 - s2

\* Variant of Similarity that takes source2 as the reference.
SimilarityOfSource2(s1, s2) ==
    IF s2 # 0 THEN [num |-> (s2 - Abs(s1 - s2)) * 100, den |-> s2]
    ELSE [num |-> 0, den |-> 1]

\* (1 - abs(source1 - source2) / source1) * 100 if source1 != 0 else 0, as the
\* fraction num / den with den > 0.
Similarity(s1, s2) ==
    IF s1 # 0
    THEN LET ratio    == [num |-> Abs(s1 - s2), den |-> s1]
             oneMinus == [num |-> ratio.den - ratio.num, den |-> ratio.den]
             times    == [num |-> oneMinus.num * 100, den |-> oneMinus.den]
         IN IF times.den < 0 THEN [num |-> -times.num, den |-> -times.den]
            ELSE times
    ELSE [num |-> 0, den |-> 1]

\* The pivot of the stacked frame c with its two computed columns, in the
\* order of its index.
Pivot(c) ==
    LET kept == PivotInput(c)
        ixs  == SortedIndex({ IndexOf(kept[p]) : p \in DOMAIN kept })
    IN [n \in DOMAIN ixs |->
          LET s1 == FillNaZero(AggFirst(kept, ixs[n], "source1"))
              s2 == FillNaZero(AggFirst(kept, ixs[n], "source2"))
          IN [index |-> ixs[n], source1 |-> s1, source2 |-> s2,
              Difference |-> Difference(s1, s2),
              Similarity |-> Similarity(s1, s2)]]

\* The sources that have a column in the pivot of the stacked frame c.
PivotColumns(c) == { PivotInput(c)[p].Source : p \in DOMAIN PivotInput(c) }

SimilarityLess(a, b) == a.num * b.den < b.num * a.den

\* Variant of SortsBefore for ascending=[True, True].
SortsBeforeAscending(x, y) ==
    \/ x.Difference < y.Difference
    \/ x.Difference = y.Difference /\ SimilarityLess(x.Similarity, y.Similarity)

\* The order of sort_values(by=['Difference', 'Similarity %'],
\* ascending=[False, True]).
SortsBefore(x, y) ==
    \/ x.Difference > y.Difference
    \/ x.Difference = y.Difference /\ SimilarityLess(x.Similarity, y.Similarity)

\* sort_values: rows that are equal on both columns stay in their order.
RECURSIVE SortPivotRows(_)
SortPivotRows(t) ==
    IF t = <<>> THEN <<>>
    ELSE LET x == t[Len(t)]
             RECURSIVE Ins(_)
             Ins(u) == IF u = <<>> THEN <<x>>
                       ELSE IF SortsBefore(x, Head(u)) THEN <<x>> \o u
                            ELSE <<Head(u)>> \o Ins(Tail(u))
         IN Ins(SortPivotRows(SubSeq(t, 1, Len(t) - 1)))

InitOne ==
    /\ excel1 \in Sheets(Sheet1Rows, MaxForecastRows)
    /\ excel2 \in Sheets(Sheet2Rows, MaxForecastRows)
    /\ extra_cols \in { <<>>, <<"region">> }
    /\ excel1_trim = <<>>
    /\ excel2_trim = <<>>
    /\ pivot_table = <<>>
    /\ pc1 = "loaded"
    /\ IdleThree
    /\ IdleTwo
    /\ IdleEight
    /\ IdleAnalyse
    /\ IdleGui

\* Data preparation: the columns pulled, the ids normalized, sheet 2 enriched
\* from sheet 1, the forecasts made numeric, the sources named.
PrepareData ==
    /\ pc1 = "loaded"
    /\ excel1_trim' = Trim1(excel1)
    /\ excel2_trim' = LeftMerge(excel2, Trim1(excel1))
    /\ pc1' = "prepared"
    /\ UNCHANGED <<excel1, excel2, extra_cols, pivot_table>>
    /\ UNCHANGED <<varsThree, varsTwo, varsEight, varsAnalyse, varsGui>>

\* Concat, pivot, fillna(0), Difference and Similarity %.
PivotData ==
    /\ pc1 = "prepared"
    /\ PivotColumns(excel1_trim \o excel2_trim) = {"source1", "source2"}
    /\ pivot_table' = Pivot(excel1_trim \o excel2_trim)
    /\ pc1' = "pivoted"
    /\ UNCHANGED <<excel1, excel2, extra_cols, excel1_trim, excel2_trim>>
    /\ UNCHANGED <<varsThree, varsTwo, varsEight, varsAnalyse, varsGui>>

\* A source without any row in the pivot has no column: pivot_table['source1']
\* or pivot_table['source2'] raises KeyError and the handler logs it.
PivotRaises ==
    /\ pc1 = "prepared"
    /\ PivotColumns(excel1_trim \o excel2_trim) # {"source1", "source2"}
    /\ pivot_table' = <<>>
    /\ pc1' = "error"
    /\ UNCHANGED <<excel1, excel2, extra_cols, excel1_trim, excel2_trim>>
    /\ UNCHANGED <<varsThree, varsTwo, varsEight, varsAnalyse, varsGui>>

\* Sort: highest difference first.
SortPivot ==
    /\ pc1 = "pivoted"
    /\ pivot_table' = SortPivotRows(pivot_table)
    /\ pc1' = "sorted"
    /\ UNCHANGED <<excel1, excel2, extra_cols, excel1_trim, excel2_trim>>
    /\ UNCHANGED <<varsThree, varsTwo, varsEight, varsAnalyse, varsGui>>

NextOne == PrepareData \/ PivotData \/ PivotRaises \/ SortPivot

SpecOne == InitOne /\ [][NextOne]_vars

(***************************************************************************)
(* Service two: properties                                                 *)
(***************************************************************************)
\* How many times the row value r occurs in table t.
Count(t, r) == Cardinality({p \in DOMAIN t : t[p] = r})

\* C5: the aligned tables have the same number of rows and the rows at the
\* same position carry the same key value.
C5_RowParallel ==
    pc2 # "loaded" =>
        /\ Len(df1_aligned) = Len(df2_aligned)
        /\ \A p \in DOMAIN df1_aligned :
              p \in DOMAIN df2_aligned => df1_aligned[p].key = df2_aligned[p].key

Changed(idx, col) ==
    LET v1 == df1_aligned[idx + 1][col]
        v2 == df2_aligned[idx + 1][col]
    IN ~(v1 = "nan" /\ v2 = "nan") /\ v1 # v2

\* C9: no record is made for a cell that is missing in both aligned tables,
\* and a table compared against itself gives no record at all (and no failure).
C9_MissingAndSelf ==
    /\ pc2 = "done" =>
          /\ \A m \in DOMAIN mismatches :
                LET idx == mismatches[m][1]
                    col == mismatches[m][2]
                IN ~(/\ df1_aligned[idx + 1][col] = "nan"
                     /\ df2_aligned[idx + 1][col] = "nan")
          /\ (df1 = df2 => mismatches = <<>>)
    /\ (pc2 = "error" => df1 # df2)

\* C9 witness: a table holding a missing cell in a row that is kept has been
\* compared against itself.
C9_Witness ==
    /\ pc2 = "done"
    /\ df1 = df2
    /\ \E p \in DOMAIN df1_aligned : df1_aligned[p].c1 = "nan"

ColPos(col) == CHOOSE c \in DOMAIN CompareColumns : CompareColumns[c] = col

\* C10: the mismatch list holds one record per changed cell of the compared
\* rows, nothing else, in row-major order.
C10_ExactRowMajor ==
    pc2 = "done" =>
        /\ \A idx \in 0..(Len(df1_aligned) - 1) : \A c \in DOMAIN CompareColumns :
              Changed(idx, CompareColumns[c]) =>
                 \E m \in DOMAIN mismatches : mismatches[m] = <<idx, CompareColumns[c]>>
        /\ \A m \in DOMAIN mismatches :
              /\ mismatches[m][1] \in 0..(Len(df1_aligned) - 1)
              /\ mismatches[m][2] \in Range(CompareColumns)
              /\ Changed(mismatches[m][1], mismatches[m][2])
        /\ \A m, n \in DOMAIN mismatches :
              m < n =>
                 \/ mismatches[m][1] < mismatches[n][1]
                 \/ /\ mismatches[m][1] = mismatches[n][1]
                    /\ ColPos(mismatches[m][2]) < ColPos(mismatches[n][2])

\* C10 witness: both compared columns changed in one row and a later row
\* changed too.
C10_Witness ==
    /\ pc2 = "done"
    /\ Len(mismatches) >= 3
    /\ mismatches[1][1] = mismatches[2][1]
    /\ mismatches[3][1] > mismatches[2][1]

\* C11: compare on (df2, df1) finishes exactly when compare on (df1, df2) does,
\* and then both runs record the same set of changed (row position, column)
\* positions.
C11_SymmetricDetection ==
    pc2 \in {"done", "error"} =>
        LET swapped == CompareRun(df2, df1)
        IN /\ swapped.raises = (pc2 = "error")
           /\ pc2 = "done" => Range(swapped.recs) = Range(mismatches)

\* C22: a row whose key value is missing is in neither aligned table, also
\* when both tables have such rows, and no mismatch record refers to one.
C22_MissingKeyDropped ==
    /\ \A p \in DOMAIN df1_aligned : df1_aligned[p].key # NaNKey
    /\ \A p \in DOMAIN df2_aligned : df2_aligned[p].key # NaNKey
    /\ \A m \in DOMAIN mismatches :
          /\ df1_aligned[mismatches[m][1] + 1].key # NaNKey
          /\ df2_aligned[mismatches[m][1] + 1].key # NaNKey

\* C22 witness: both tables hold a row with a missing key next to a row with
\* a common key, and the alignment kept the rows of the common key only.
C22_Witness ==
    /\ pc2 = "aligned"
    /\ \E p \in DOMAIN df1 : df1[p].key = NaNKey
    /\ \E q \in DOMAIN df2 : df2[q].key = NaNKey
    /\ Len(df1_aligned) = 1
    /\ Len(df2_aligned) = 1

\* C23: when the unique key is not a column of both sheets, compare stops at
\* the column check: nothing is aligned, sorted or compared, and there is no
\* result table and no mismatch record to write a report from.
C23_KeyMissingNoOutput ==
    (UniqueKey \notin Range(columns1) \/ UniqueKey \notin Range(columns2)) =>
        /\ pc2 \in {"loaded", "nokey"}
        /\ df1_aligned = <<>>
        /\ df2_aligned = <<>>
        /\ sortable_columns = <<>>
        /\ mismatches = <<>>
        /\ result_df = <<>>

\* C23 witness: compare returned at the column check on two sheets with rows,
\* of which only the first has the key column.
C23_Witness ==
    /\ pc2 = "nokey"
    /\ UniqueKey \in Range(columns1)
    /\ UniqueKey \notin Range(columns2)
    /\ df1 # <<>>
    /\ df2 # <<>>

\* The unique key, then the other common columns that are not compared, in the
\* order in which the first sheet has them.
FirstSeenColumns(cs1, cs2) ==
    <<UniqueKey>> \o SelectSeq(cs1, LAMBDA c : c \in StableColumns(cs1, cs2))

\* C27: the sort columns are the unique key followed by the other shared
\* columns that are not compared in first-seen order, so that every run on the
\* same tables sorts by the same columns and finds the same mismatch records.
C27_DeterministicSort ==
    LET cols == FirstSeenColumns(columns1, columns2)
        keep == CommonColumns(columns1, columns2)
    IN /\ pc2 \in {"aligned", "done", "error"} => sortable_columns = cols
       /\ pc2 = "done" =>
             mismatches = AllMismatches(AlignedBy(df1, df2, keep, cols),
                                        AlignedBy(df2, df1, keep, cols), 0)

\* C12: in the result table a cell holds the transition string "old → new"
\* (old from df1_aligned, new from df2_aligned) if and only if a mismatch
\* record exists for it; every other cell, of a compared column or not, holds
\* the value of df1_aligned.
C12_ResultCells ==
    pc2 = "done" =>
        /\ Len(result_df) = Len(df1_aligned)
        /\ \A p \in DOMAIN result_df :
              /\ DOMAIN result_df[p] = DOMAIN df1_aligned[p]
              /\ \A f \in DOMAIN result_df[p] :
                    IF <<p - 1, f>> \in Range(mismatches)
                    THEN /\ result_df[p][f] =
                               df1_aligned[p][f] \o " → " \o df2_aligned[p][f]
                         /\ result_df[p][f] # df1_aligned[p][f]
                    ELSE result_df[p][f] = df1_aligned[p][f]

\* C12 witness: a result row holds a replaced cell next to an unchanged cell of
\* a compared column, in a table whose rows were reordered by the sort on the
\* column that is not compared.
C12_Witness ==
    /\ pc2 = "done"
    /\ Len(df1) = 2
    /\ df1_aligned # df1
    /\ \E p \in DOMAIN result_df :
          /\ result_df[p].c1 = df1_aligned[p].c1
          /\ result_df[p].c2 # df1_aligned[p].c2
          /\ result_df[p].s # df2_aligned[p].s

(***************************************************************************)
(* Service eight: properties                                               *)
(***************************************************************************)
\* The cells of the merged frame that are values of row r of table t.
CellsOf(m) == UNION { Range(m.rows[r]) : r \in DOMAIN m.rows }

\* The coerced key values of the tables of ts that have their merging column.
CoercedKeys(ts) ==
    UNION { { CoerceKey(ts[t].rows[r][1]) : r \in DOMAIN ts[t].rows } :
            t \in { u \in DOMAIN ts : HasKeyColumn(ts[u]) } }

AsSheet(m) == [cols |-> m.cols, rows |-> m.rows, mcol |-> "merge_key"]

\* C8: the merge_key values of the returned table are the coerced key values
\* of all the tables; every cell of a row comes from a table row of that key
\* or is missing; and merging the result of <<T1, T2>> with T3 gives the same
\* key set as merging <<T1, T2, T3>> in one pass.
C8_KeyCoverage ==
    (pc8 = "done" /\ merged_df # NoDf) =>
        /\ KeysOf(merged_df) = CoercedKeys(tables)
        /\ \A r \in DOMAIN merged_df.rows :
              LET row == merged_df.rows[r]
                  kp  == KeyPos(merged_df.cols)
              IN \A p \in DOMAIN row \ {kp} :
                    \/ row[p] = NaNCell
                    \/ /\ row[p][1] \in DOMAIN tables
                       /\ CoerceKey(tables[row[p][1]].rows[row[p][2]][1]) = row[kp]
        /\ (Len(tables) = 3 /\ \A t \in DOMAIN tables : HasKeyColumn(tables[t])) =>
              LET m12 == MergeAll(NoDf, SubSeq(tables, 1, 2), 1)
              IN KeysOf(MergeAll(NoDf, <<AsSheet(m12), tables[3]>>, 1))
                    = KeysOf(merged_df)

\* C8 witness: three tables were merged and a key of the result is the key of
\* one table only, its row keeping a missing cell.
C8_Witness ==
    /\ pc8 = "done"
    /\ Len(tables) = 3
    /\ \A t \in DOMAIN tables : HasKeyColumn(tables[t]) /\ tables[t].rows # <<>>
    /\ \E k \in KeysOf(merged_df) :
          Cardinality({ t \in DOMAIN tables :
                          k \in { CoerceKey(tables[t].rows[r][1]) :
                                    r \in DOMAIN tables[t].rows } }) = 1
    /\ \E r \in DOMAIN merged_df.rows : NaNCell \in Range(merged_df.rows[r])

\* The key values that the tables having their merging column would give
\* when a key were trimmed and a missing key became the empty text.
TrimmedKeys(ts) ==
    UNION { { IF IsNaKey(ts[t].rows[r][1]) THEN <<>> ELSE Strip(ts[t].rows[r][1]) :
                r \in DOMAIN ts[t].rows } :
            t \in { u \in DOMAIN ts : HasKeyColumn(ts[u]) } }

\* C20: the key column of the returned table is merge_key and its values are
\* the key values of the merged tables, trimmed, a missing key value being
\* the empty text.
C20_TrimmedKeys ==
    (pc8 = "done" /\ merged_df # NoDf) =>
        /\ "merge_key" \in Range(merged_df.cols)
        /\ KeysOf(merged_df) = TrimmedKeys(tables)

\* The name under which the column c of the sheet at position t of
\* file_paths is expected in the result, given the names present before it.
ExpectedName(c, t, before) ==
    IF c \in before THEN c \o "_" \o OrdinalWord(t) ELSE c

\* C21: in the returned table the column names are unique, and every column
\* of every merged sheet is there with the cells of that sheet, under its own
\* name or, when the name was already present, under the name with the
\* ordinal suffix of the sheet's position.
C21_SuffixedColumns ==
    (pc8 = "done" /\ merged_df # NoDf) =>
        /\ \A p, q \in DOMAIN merged_df.cols :
              p # q => merged_df.cols[p] # merged_df.cols[q]
        /\ \A t \in DOMAIN tables :
              HasKeyColumn(tables[t]) =>
                 LET before == Range(MergeAll(NoDf, SubSeq(tables, 1, t - 1), 1).cols)
                 IN \A c \in 2..Len(tables[t].cols) :
                       \E p \in DOMAIN merged_df.cols :
                          /\ merged_df.cols[p] =
                                ExpectedName(tables[t].cols[c], t, before)
                          /\ \A r \in DOMAIN tables[t].rows :
                                \E m \in DOMAIN merged_df.rows :
                                   merged_df.rows[m][p] = <<t, r>>

\* C30: the saved lists file_paths, sheet_names and merging_columns have the
\* same length at every time, so that service_merge can read sheet_names[i] and
\* merging_columns[i] for every file, and every entry that holds a choice was
\* picked for the file now at its index.
C30_ListsAligned ==
    /\ Len(sheet_names) = Len(file_paths)
    /\ Len(merging_columns) = Len(file_paths)
    /\ \A p \in DOMAIN file_paths :
          /\ sheet_names[p].file \in {0, file_paths[p]}
          /\ merging_columns[p].file \in {0, file_paths[p]}

(***************************************************************************)
(* Service three: properties                                               *)
(***************************************************************************)
GroupLen(g) == Len(GroupIndex(g))

\* Row k (0-based) of group g is a candidate anomaly: it is evaluated
\* (k >= window), its baseline is nonzero and it meets both thresholds.
IsCandidate(g, k) ==
    /\ k >= window
    /\ k < GroupLen(g)
    /\ Baseline2(g, k) # 0
    /\ IsSingleAnomaly(g, k)

Flagged(g, k) == anomaly[GroupIndex(g)[k + 1]]

\* a..b is a maximal run of consecutive candidate rows of group g.
MaximalRun(g, a, b) ==
    /\ a <= b
    /\ \A k \in a..b : IsCandidate(g, k)
    /\ ~IsCandidate(g, a - 1)
    /\ ~IsCandidate(g, b + 1)

\* C1: in the returned table, a maximal run of exactly `shift` consecutive
\* candidates has exactly its rows flagged (the bounding non-candidate rows are
\* not), a group whose runs of candidates are all shorter than `shift` has no
\* flagged row, and during the scan the counter is zero right after a
\* non-candidate row was processed.
C1_RunsDecideFlags ==
    /\ pc3 = "done" =>
         \A g \in GroupKeys :
            LET P == 0..(GroupLen(g) - 1)
            IN /\ \A a, b \in P :
                    (MaximalRun(g, a, b) /\ b - a + 1 = shift) =>
                       /\ \A k \in a..b : Flagged(g, k)
                       /\ (a - 1 \in P => ~Flagged(g, a - 1))
                       /\ (b + 1 \in P => ~Flagged(g, b + 1))
               /\ (\A a, b \in P : MaximalRun(g, a, b) => b - a + 1 < shift)
                     => \A k \in P : ~Flagged(g, k)
    /\ (/\ pc3 = "scan"
        /\ gi <= Len(GroupOrder)
        /\ i > window
        /\ i <= GroupLen(CurGroup)
        /\ ~IsCandidate(CurGroup, i - 1)) => consecutive = 0

\* C2: every flagged row is a candidate anomaly; in particular a row whose
\* baseline is 0 is never flagged.
C2_FlaggedIsCandidate ==
    \A g \in GroupKeys : \A k \in 0..(GroupLen(g) - 1) :
        Flagged(g, k) => IsCandidate(g, k)

\* C3: the direction of every flagged row is 'increase' if the row's value
\* exceeds the row's own baseline (median of the `window` rows before it),
\* else 'decrease'.
C3_DirectionFromOwnBaseline ==
    \A g \in GroupKeys : \A k \in 0..(GroupLen(g) - 1) :
        (Flagged(g, k) /\ k >= window) =>
            direction[GroupIndex(g)[k + 1]] = DirectionAt(g, k, k)

\* C4: a row that is flagged keeps its flag and its direction in every later
\* step of the scan (first writer wins, nothing is cleared).
C4_WrittenOnce ==
    [][\A r \in DOMAIN anomaly :
          anomaly[r] => (anomaly'[r] /\ direction'[r] = direction[r])]_vars

\* C4 witness: the row just processed confirmed a shift window that contains a
\* row flagged by an earlier confirmation, whose direction against the new
\* baseline would differ from the one it keeps.
C4_Witness ==
    /\ pc3 = "scan"
    /\ gi <= Len(GroupOrder)
    /\ i > window
    /\ i <= GroupLen(CurGroup)
    /\ shift >= 2
    /\ consecutive > shift
    /\ \E j \in ShiftWindow(i - 1) :
          /\ j < i - 1
          /\ Flagged(CurGroup, j)
          /\ direction[GroupIndex(CurGroup)[j + 1]] # DirectionAt(CurGroup, j, i - 1)

\* C25: after each row the counter of consecutive candidates is below
\* `shift`, and the candidate that confirms a shift (the step that flags rows)
\* resets it, so that the next confirmation needs `shift` further candidates.
C25_CounterResets ==
    [][(pc3 = "scan" /\ i' = i + 1) =>
          /\ consecutive' \in 0..(shift - 1)
          /\ anomaly' # anomaly => consecutive' = 0]_vars

\* C26 as stated: with a nonzero baseline the row is counted as a candidate
\* exactly when |current - baseline| / baseline * 100 >= the percent threshold
\* and |current - baseline| >= the absolute threshold (doubled values).
C26_SignedBaseline ==
    [][(pc3 = "scan" /\ i' = i + 1 /\ Baseline2(CurGroup, i) # 0) =>
          LET b2 == Baseline2(CurGroup, i)
              d2 == Abs(2 * GroupUsage(CurGroup, i) - b2)
              pct == IF b2 > 0 THEN d2 * 100 >= AnomalyThresholdPercent * b2
                               ELSE d2 * 100 <= AnomalyThresholdPercent * b2
          IN (consecutive' = consecutive + 1)
                <=> (pct /\ d2 >= 2 * AnomalyThresholdAbs)]_vars

\* C26 amended: with a nonzero baseline of either sign the row is counted as a
\* candidate exactly when |current - baseline| / |baseline| * 100 >= the
\* percent threshold and |current - baseline| >= the absolute threshold; a row
\* that meets one threshold only is not counted and restarts the counter.
C26_AbsoluteBaseline ==
    [][(pc3 = "scan" /\ i' = i + 1 /\ Baseline2(CurGroup, i) # 0) =>
          LET b2 == Baseline2(CurGroup, i)
              d2 == Abs(2 * GroupUsage(CurGroup, i) - b2)
              both == /\ d2 * 100 >= AnomalyThresholdPercent * Abs(b2)
                      /\ d2 >= 2 * AnomalyThresholdAbs
          IN /\ both => consecutive' = consecutive + 1
             /\ ~both => consecutive' = 0]_vars

\* C26 witness: the scan has counted a row whose baseline is negative, after
\* a row that met the percent threshold only and restarted the counter.
C26_Witness ==
    /\ pc3 = "scan"
    /\ gi = 1
    /\ window = 1
    /\ i = 3
    /\ GroupLen(CurGroup) = 3
    /\ Baseline2(CurGroup, 2) < 0
    /\ consecutive = 1
    /\ GroupUsage(CurGroup, 0) = -100
    /\ GroupUsage(CurGroup, 1) = -50

\* C28: a row at a position below `window` in its group is never flagged, and
\* a group of at most `window` rows has no flagged row and no direction.
C28_WarmUpNeverFlagged ==
    \A g \in GroupKeys :
        LET idx == GroupIndex(g)
        IN \A k \in 0..(Len(idx) - 1) :
              /\ k < window => ~anomaly[idx[k + 1]]
              /\ Len(idx) <= window =>
                    (~anomaly[idx[k + 1]] /\ direction[idx[k + 1]] = "None")

\* C28 witness: the returned table has a group whose first row after the
\* warm-up rows is flagged, next to an unflagged group of at most `window` rows.
C28_Witness ==
    /\ pc3 = "done"
    /\ \E g, h \in GroupKeys :
          /\ GroupLen(g) > window
          /\ Flagged(g, window)
          /\ shift >= 2
          /\ h # g
          /\ GroupLen(h) >= 1
          /\ GroupLen(h) <= window
          /\ \A k \in 0..(GroupLen(h) - 1) : ~Flagged(h, k)

\* C29: at every point of the scan and in the returned table a row has a
\* direction exactly when it is flagged; the rows that were never in a
\* confirmed shift window are unflagged and without direction.
C29_DirectionIffFlagged ==
    \A r \in DOMAIN anomaly :
        /\ anomaly[r] <=> direction[r] \in {"increase", "decrease"}
        /\ ~anomaly[r] <=> direction[r] = "None"

\* C29 witness: the returned table has a flagged row with a direction whose
\* usage equals the baseline of the confirming row, and an unflagged row.
C29_Witness ==
    /\ pc3 = "done"
    /\ \E g \in GroupKeys : \E j, k \in 0..(GroupLen(g) - 1) :
          /\ j < k
          /\ Flagged(g, j)
          /\ Flagged(g, k)
          /\ k >= window
          /\ 2 * GroupUsage(g, j) = Baseline2(g, k)
          /\ direction[GroupIndex(g)[j + 1]] = "decrease"
    /\ \E r \in DOMAIN anomaly : ~anomaly[r] /\ direction[r] = "None"

\* C13: get_anomalous_instances returns, once each and in the order of the
\* table, exactly the rows whose (company, service) pair has at least one row
\* with anomaly = True: every row of such a pair, flagged or not, and no row
\* of a pair without a flagged row.
C13_RowsOfAnomalousPairs ==
    pc3 = "selected" =>
        /\ \A r \in DOMAIN df :
              (\E p \in DOMAIN instances : instances[p] = r)
                 <=> (\E q \in DOMAIN df : df[q].grp = df[r].grp /\ anomaly[q])
        /\ \A p, q \in DOMAIN instances : p < q => instances[p] < instances[q]

\* C13 witness: the selection returned a row that is not flagged (its pair
\* has a flagged row) and left out a row of a pair without any flagged row.
C13_Witness ==
    /\ pc3 = "selected"
    /\ \E p \in DOMAIN instances : ~anomaly[instances[p]]
    /\ \E r \in DOMAIN df : r \notin Range(instances)

\* C14: a call of flag_anomalies on the table a first call returned gives the
\* same anomaly flags and the same directions as the first call.
C14_Idempotent ==
    (run = 2 /\ pc3 \in {"done", "selected"}) =>
        /\ anomaly = first_flags.anomaly
        /\ direction = first_flags.direction

\* C14 witness: the second call has returned a table in which one row is
\* flagged as an increase and another one as a decrease.
C14_Witness ==
    /\ run = 2
    /\ pc3 = "done"
    /\ \E r, q \in DOMAIN anomaly :
          /\ anomaly[r] /\ direction[r] = "increase"
          /\ anomaly[q] /\ direction[q] = "decrease"

\* The usages of group g in date order.
GroupUsages(g) == [k \in 1..GroupLen(g) |-> GroupUsage(g, k - 1)]

\* C15: whatever the order in which the rows of the groups are scanned (the
\* rows of one group in date order), a step writes only to rows of the group
\* it scans, and the table returned gives every group the flags and directions
\* that the scan of that group alone, a function of its usages, gives it.
C15_GroupsIndependent ==
    [][/\ \A r \in DOMAIN df :
             (anomaly'[r] # anomaly[r] \/ direction'[r] # direction[r])
                => df[r].grp = CurGroup
       /\ pc3' = "done" =>
             \A g \in GroupKeys :
                LET idx == GroupIndex(g)
                    fl  == GroupFlags(GroupUsages(g))
                IN \A k \in DOMAIN idx :
                      /\ anomaly'[idx[k]] = fl[k].anomaly
                      /\ direction'[idx[k]] = fl[k].direction]_vars

\* C15 witness: the scan of one group was suspended with a candidate counted
\* and rows left, the scan of the other group flagged a row meanwhile, and the
\* first scan is running again.
C15_Witness ==
    /\ pc3 = "scan"
    /\ saved # <<>>
    /\ i > window
    /\ i < GroupLen(CurGroup)
    /\ consecutive > 0
    /\ \E h \in DOMAIN GroupOrder \ {gi} :
          /\ saved[h].i > window
          /\ saved[h].c > 0
          /\ \E r \in DOMAIN df : df[r].grp = GroupOrder[h] /\ anomaly[r]
    /\ \E r \in DOMAIN df : df[r].grp = CurGroup /\ ~anomaly[r] /\ r > 1

\* C24: when the sheet lacks a grouping column, the value column or the date
\* column, analyse stops at the column check: df_agg, the table the detection
\* scans and annotates, is never built.
C24_SchemaErrorFirst ==
    (\E c \in {COL_COMPANY, COL_SERVICE, COL_USAGE, COL_DATE} : c \notin Range(df_raw.cols)) =>
        /\ pc3a \in {"start", "init_error"}
        /\ df_agg = <<>>

\* C24 witness: analyse returned at the column check on a sheet with rows that
\* has every required column but the value column.
C24_Witness ==
    /\ pc3a = "init_error"
    /\ Range(RequiredCols) \ Range(df_raw.cols) = {COL_USAGE}
    /\ df_raw.rows # <<>>

(***************************************************************************)
(* Service one: properties                                                 *)
(***************************************************************************)
\* The forecast of row p of the sheet t as a number.
NumberAt(t, p) == FillNaZero(ToNumeric(t[p].fc))

\* The positions of the rows of sheet t whose normalized id is k.
RowsOfId(t, k) == { p \in DOMAIN t : NormalizeId(t[p].id) = k }

Least(P) == CHOOSE p \in P : \A q \in P : p <= q

\* C16: in every pivot row Difference = source1 - source2; Similarity % is
\* (1 - |source1 - source2| / source1) * 100 when source1 is not 0 and 0 when
\* source1 is 0, whatever source2; source1 = 100 and source2 = 80 give
\* Difference 20 and Similarity % 80.
C16_DifferenceAndSimilarity ==
    pc1 \in {"pivoted", "sorted"} =>
        \A p \in DOMAIN pivot_table :
           LET r   == pivot_table[p]
               s1  == r.source1
               s2  == r.source2
               sim == r.Similarity
           IN /\ r.Difference = s1 - s2
              /\ sim.den > 0
              /\ s1 # 0 => sim.num * s1 = 100 * (s1 - Abs(s1 - s2)) * sim.den
              /\ s1 = 0 => sim.num = 0
              /\ (s1 = 100 /\ s2 = 80) =>
                    (r.Difference = 20 /\ sim.num = 80 * sim.den)

\* C16 witness: the pivot holds a row with source1 = 100 and source2 = 80 and
\* a row with source1 = 0 and another source2.
C16_Witness ==
    /\ pc1 = "pivoted"
    /\ \E p, q \in DOMAIN pivot_table :
          /\ pivot_table[p].source1 = 100 /\ pivot_table[p].source2 = 80
          /\ pivot_table[q].source1 = 0 /\ pivot_table[q].source2 # 0

\* C17: after the sort, of two adjacent rows the earlier one has the greater
\* or equal Difference, and when the Differences are equal the smaller or
\* equal Similarity %; the sort keeps the rows of the pivot.
C17_SortedOrder ==
    pc1 = "sorted" =>
        /\ \A p \in 1..(Len(pivot_table) - 1) :
              LET a == pivot_table[p]
                  b == pivot_table[p + 1]
              IN /\ a.Difference >= b.Difference
                 /\ a.Difference = b.Difference =>
                       a.Similarity.num * b.Similarity.den
                          <= b.Similarity.num * a.Similarity.den
        /\ Len(pivot_table) = Len(Pivot(excel1_trim \o excel2_trim))
        /\ Range(pivot_table) = Range(Pivot(excel1_trim \o excel2_trim))

\* C17 witness: three rows were sorted, the first two tied on Difference and
\* set apart by Similarity %, the third with a smaller Difference, and the sort
\* moved a row in front of a row that preceded it in the index.
C17_Witness ==
    /\ pc1 = "sorted"
    /\ Len(pivot_table) = 3
    /\ pivot_table[1].Difference = pivot_table[2].Difference
    /\ pivot_table[1].Similarity.num * pivot_table[2].Similarity.den
          < pivot_table[2].Similarity.num * pivot_table[1].Similarity.den
    /\ pivot_table[2].Difference > pivot_table[3].Difference
    /\ IndexLess(pivot_table[2].index, pivot_table[1].index)

\* C18: when several rows of a sheet have the normalized id of a pivot row,
\* the value of that sheet's source in the row is the forecast of the first
\* of them; the analysis fails only when a source has no row in the pivot.
C18_FirstOfDuplicates ==
    /\ pc1 \in {"pivoted", "sorted"} =>
          \A n \in DOMAIN pivot_table :
             LET r  == pivot_table[n]
                 P1 == RowsOfId(excel1, r.index[1])
                 P2 == RowsOfId(excel2, r.index[1])
             IN /\ P1 # {} => r.source1 = NumberAt(excel1, Least(P1))
                /\ P2 # {} => r.source2 = NumberAt(excel2, Least(P2))
    /\ pc1 = "error" =>
          \/ excel1 = <<>>
          \/ excel2 = <<>>
          \/ /\ HasExtra
             /\ \A q \in DOMAIN excel2 :
                   RowsOfId(excel1, NormalizeId(excel2[q].id)) = {}

\* C18 witness: two rows of sheet 1 have the same normalized id with different
\* forecasts, and the pivot was built.
C18_Witness ==
    /\ pc1 = "pivoted"
    /\ \E p, q \in DOMAIN excel1 :
          /\ p < q
          /\ excel1[p].id # excel1[q].id
          /\ NormalizeId(excel1[p].id) = NormalizeId(excel1[q].id)
          /\ NumberAt(excel1, p) # NumberAt(excel1, q)

\* C19: every normalized id of sheet 1 or of sheet 2 has a row in the pivot,
\* and in the rows of an id that only one sheet has, the value of the other
\* source is 0.
C19_EveryIdInPivot ==
    pc1 \in {"pivoted", "sorted"} =>
        \A k \in { NormalizeId(excel1[p].id) : p \in DOMAIN excel1 }
                 \cup { NormalizeId(excel2[q].id) : q \in DOMAIN excel2 } :
           /\ \E n \in DOMAIN pivot_table : pivot_table[n].index[1] = k
           /\ \A n \in DOMAIN pivot_table :
                 pivot_table[n].index[1] = k =>
                    /\ RowsOfId(excel1, k) = {} => pivot_table[n].source1 = 0
                    /\ RowsOfId(excel2, k) = {} => pivot_table[n].source2 = 0

=============================================================================
